---- MODULE Spec2Model ----
(***************************************************************************)
(* Metadata cache and request coalescer of YouTubeService                  *)
(* (src/src/services/youtubeService.ts): the module-level globalCache and  *)
(* pendingRequests maps, the cached lookups getVideoMetadata and           *)
(* getChannelMetadata with their fetch pipelines, and the sequential       *)
(* orchestrators built on them.  JavaScript runs one callback at a time:   *)
(* every action below is the code that runs between two suspension points  *)
(* (await).  Further: the live resolution and the viewer count of          *)
(* src/viewers/viewers.mjs (getConcurrentViewersFromChannel), and the      *)
(* presentation of a viewer count (transformToStreamData, formatViewers).  *)
(***************************************************************************)
EXTENDS Integers, Sequences, FiniteSets, TLC

\* ---------------------------------------------------------------- constants
CACHE_DURATION == 30000
DELAY_MS == 500

\* ------------------------------------------------------------------- bounds
MaxReqs == 2
MaxTicks == 2
MaxBatchLen == 3

\* The clock advances in steps of half the cache duration, so that an entry
\* is seen at the ages 0, 15000 (fresh) and 30000 (the first stale age).
TickMs == CACHE_DURATION \div 2

VideoIds == {"v1"}
ChannelIds == {"c1", "c2"}

\* The cache key of a video is the raw id; of a channel, `channel:${id}`.
VideoKey(id) == <<"", id>>
ChannelKey(id) == <<"channel:", id>>
Keys == {VideoKey(id) : id \in VideoIds} \cup {ChannelKey(id) : id \in ChannelIds}
IsChannelKey(k) == k[1] = "channel:"

\* External callers, and the caller slot of the sequential orchestrator.
Callers == {1, 2}
BatchCaller == 0
Procs == Callers \cup {BatchCaller}

\* HTTP statuses the upstream answers with; response.ok is 200..299.
Statuses == {200, 400, 503}
ResponseOk(status) == status \in 200..299

\* A YouTubeResponse object: obj is its identity, success its success field.
NoData == [obj |-> 0, success |-> FALSE]
Response(n, s) == [obj |-> n, success |-> s]

\* How a promise stands: pending, fulfilled with data, or rejected.
Unsettled == [kind |-> "pending", data |-> NoData, error |-> ""]
Fulfilled(d) == [kind |-> "value", data |-> d, error |-> ""]
Rejected(e) == [kind |-> "error", data |-> NoData, error |-> e]

InvalidIdError(k) == IF IsChannelKey(k) THEN "Invalid channel ID" ELSE "Invalid video ID"
HttpError == "HTTP error"
NetworkError == "Failed to fetch"
ParseError == "Unexpected token"

IdleCall == [pc |-> "idle", key |-> <<"", "">>, req |-> 0, via |-> "", result |-> Unsettled]

\* The orchestrator before it is called.
IdleBatch == [pc |-> "idle", fn |-> "", ids |-> <<>>, i |-> 0, results |-> <<>>,
              uncached |-> <<>>, outcomes |-> <<>>, vias |-> <<>>, delays |-> <<>>]

\* ------------------------------------------------ viewers.mjs: the data

\* null, and a value that is not null.
Null == <<>>
Just(x) == <<x>>

LiveVideoIds == {"vidA", "vidB"}
ViewerChannels == {"UC1"}
ViewerCounts == {0, 7, 8}

YT_WATCH(id) == <<"watch", id>>
YT_LIVE_CHANNEL(uc) == <<"live", uc>>

\* A JSON blob of a page as extractJsonFromHtml gives it: not found or not
\* parsed (null), or an object, which is given here by the candidates that
\* the walk of deepPickConcurrentViewers collects from it, in order.
NoJson == [parsed |-> FALSE, found |-> <<>>]
Json(found) == [parsed |-> TRUE, found |-> found]
Blobs == {NoJson, Json(<<>>)} \cup {Json(<<n>>) : n \in ViewerCounts}

\* An HTML text, given by what the code looks for in it: whether it is the
\* empty string; the id of its first "videoId":"..." literal; isLiveNow ===
\* true in the microformat of ytInitialPlayerResponse; the token
\* "isLiveNow": true; a watching-now phrase; the blobs ytInitialData and
\* ytInitialPlayerResponse; and the number that extractNumberFromText reads
\* in front of the first watching-now phrase.
Html(empty, videoId, isLiveNow, isLiveFlag, watchingNow, initialData, playerResp, phrase) ==
  [empty |-> empty, videoId |-> videoId, isLiveNow |-> isLiveNow, isLiveFlag |-> isLiveFlag,
   watchingNow |-> watchingNow, initialData |-> initialData, playerResp |-> playerResp,
   phrase |-> phrase]
EmptyHtml == Html(TRUE, Null, FALSE, FALSE, FALSE, NoJson, NoJson, Null)

\* The pages a channel's /live URL is answered with: empty, without a
\* videoId literal, or with one.
ChannelPages ==
  {EmptyHtml} \cup
  {Html(FALSE, v, FALSE, FALSE, FALSE, NoJson, NoJson, Null) : v \in {Null} \cup {Just(id) : id \in LiveVideoIds}}

\* The pages a watch URL is answered with.  The microformat flag is read from
\* the parsed player response, whose text holds the token; a number in front
\* of a phrase needs the phrase.
WatchPages ==
  {EmptyHtml} \cup
  {h \in {Html(FALSE, Null, l[1], l[2], w, d, p, n) :
            l \in {<<FALSE, FALSE>>, <<FALSE, TRUE>>, <<TRUE, TRUE>>}, w \in BOOLEAN,
            d \in Blobs, p \in Blobs, n \in {Null} \cup {Just(c) : c \in ViewerCounts}} :
     /\ h.isLiveNow => h.playerResp.parsed
     /\ h.phrase # Null => h.watchingNow}

\* The watch pages told apart by what the verification reads alone.
VerifyPages ==
  {h \in WatchPages : h.initialData = NoJson /\ h.phrase = Null /\ h.playerResp \in {NoJson, Json(<<>>)}}

\* The Location header of a 3xx response: none, or a URL given by what the
\* two patterns of resolveLiveVideoIdStrict match in it.  A URL that holds
\* watch?v=<id> holds ?v=<id> as well.
Location(query, watch) == [query |-> query, watch |-> watch]
Locations ==
  {Null, Just(Location(Null, Null))} \cup
  UNION {{Just(Location(Just(id), Null)), Just(Location(Just(id), Just(id)))} : id \in LiveVideoIds}

\* What fetch() settles with: a response, or a rejection (status -1).
HttpResponse(status, location, body) == [status |-> status, location |-> location, body |-> body]
FetchRejected == HttpResponse(-1, Null, EmptyHtml)
NoResponse == HttpResponse(0, Null, EmptyHtml)
Responses(pages) ==
  {HttpResponse(200, Null, h) : h \in pages} \cup
  {HttpResponse(302, l, EmptyHtml) : l \in Locations} \cup
  {HttpResponse(404, Null, EmptyHtml), FetchRejected}

\* A call of fetch(): by the resolution or by the viewer extraction, its URL,
\* its redirect mode and its answer.
Fetch(by, url, redirect) == [by |-> by, url |-> url, redirect |-> redirect, response |-> NoResponse]

NoResult == [kind |-> "pending", videoId |-> Null, liveViewers |-> Null, error |-> ""]
IdleViewer == [pc |-> "idle", channelId |-> "", fetches |-> <<>>, candidate |-> Null,
               videoId |-> Null, result |-> NoResult]

\* A viewer count in the presentation: the concurrentViewers of the metadata,
\* the viewers of the StreamData made of it, the text of the stream card.
IdleShown == [pc |-> "idle", concurrentViewers |-> Null, viewers |-> 0, text |-> ""]

\* The process `node viewers.mjs <argument>`: not started, running, exited with
\* a code; what it has printed to standard output.
IdleCli == [pc |-> "idle", argv |-> Null, exitCode |-> 0, stdout |-> Null]

\* No extraction function called yet.
IdleExtract == [pc |-> "idle", fn |-> "", input |-> <<>>, output |-> Null]

\* The liveChats collection before any message, no sweep under way.
IdleCleanup == [pc |-> "idle", messages |-> {}, live |-> {}, outcome |-> "", liveStreamIds |-> {},
                snapshot |-> {}, sweepNow |-> 0, writeBatch |-> {}, deleted |-> {}]

VARIABLES
  now,              \* Date.now()
  globalCache,      \* Map key -> {data, timestamp}
  pendingRequests,  \* Map key -> promise (the index of the request in requests)
  requests,         \* the fetchVideoData/fetchChannelData calls made so far, each
                    \* with its key, the time it was made at, how far it is, the
                    \* HTTP status received (-1: none, fetch rejected) and what
                    \* its promise settled with
  calls,            \* each caller's call of the cached lookup
  batch,            \* the call of getVideosMetadata/getChannelsMetadata(Fallback)
  viewer,           \* the call of getConcurrentViewersFromChannel (viewers.mjs)
  shown,            \* a viewer count on its way to the presentation
  cli,              \* the process of the command line of viewers.mjs
  extract,          \* a call of one of the extraction functions of viewers.mjs
  cleanup           \* the chat messages and the sweep of ChatCleanupService

vars == <<now, globalCache, pendingRequests, requests, calls, batch, viewer, shown, cli, extract,
         cleanup>>

MapSet(m, k, v) == [x \in (DOMAIN m) \cup {k} |-> IF x = k THEN v ELSE m[x]]
MapDelete(m, k) == [x \in (DOMAIN m) \ {k} |-> m[x]]

Init ==
  /\ now = 0
  /\ globalCache = <<>>
  /\ pendingRequests = <<>>
  /\ requests = <<>>
  /\ calls = [c \in Procs |-> IdleCall]
  /\ batch = IdleBatch
  /\ viewer = IdleViewer
  /\ shown = IdleShown
  /\ cli = IdleCli
  /\ extract = IdleExtract
  /\ cleanup = IdleCleanup

\* Mutant of IsFresh: the entry is taken as fresh for half the duration only.
IsFreshHalf(k) == k \in DOMAIN globalCache /\ now - globalCache[k].timestamp < CACHE_DURATION \div 2

\* Mutant of IsFresh: an entry is served whatever its age.
IsFreshAlways(k) == k \in DOMAIN globalCache

\* cached && Date.now() - cached.timestamp < CACHE_DURATION
IsFresh(k) == k \in DOMAIN globalCache /\ now - globalCache[k].timestamp < CACHE_DURATION

\* Mutant of Lookup: the pending request of the key is not looked for.
LookupNoPending(c, k) ==
  IF k \in DOMAIN globalCache /\ now - globalCache[k].timestamp < CACHE_DURATION
  THEN /\ calls' = [calls EXCEPT ![c] = [pc |-> "done", key |-> k, req |-> 0, via |-> "hit",
                                          result |-> Fulfilled(globalCache[k].data)]]
       /\ UNCHANGED <<pendingRequests, requests>>
  ELSE /\ Len(requests) < MaxReqs
       /\ requests' = Append(requests, [key |-> k, at |-> now, stage |-> "fetch", status |-> 0,
                                        outcome |-> Unsettled])
       /\ pendingRequests' = MapSet(pendingRequests, k, Len(requests) + 1)
       /\ calls' = [calls EXCEPT ![c] = [pc |-> "await", key |-> k, req |-> Len(requests) + 1,
                                          via |-> "own", result |-> Unsettled]]

\* The synchronous part of getVideoMetadata/getChannelMetadata, up to its
\* first await: cache check, pending check, or a new fetch that is registered.
Lookup(c, k) ==
  IF IsFresh(k)
  THEN /\ calls' = [calls EXCEPT ![c] = [pc |-> "done", key |-> k, req |-> 0, via |-> "hit",
                                          result |-> Fulfilled(globalCache[k].data)]]
       /\ UNCHANGED <<pendingRequests, requests>>
  ELSE IF k \in DOMAIN pendingRequests
  THEN /\ calls' = [calls EXCEPT ![c] = [pc |-> "await", key |-> k, req |-> pendingRequests[k],
                                          via |-> "coalesced", result |-> Unsettled]]
       /\ UNCHANGED <<pendingRequests, requests>>
  ELSE /\ Len(requests) < MaxReqs
       /\ requests' = Append(requests, [key |-> k, at |-> now, stage |-> "fetch", status |-> 0,
                                        outcome |-> Unsettled])
       /\ pendingRequests' = MapSet(pendingRequests, k, Len(requests) + 1)
       /\ calls' = [calls EXCEPT ![c] = [pc |-> "await", key |-> k, req |-> Len(requests) + 1,
                                          via |-> "own", result |-> Unsettled]]

\* A call by an external caller (one that has no call in progress).
getVideoMetadata(c, id) ==
  /\ calls[c].pc \in {"idle", "done"}
  /\ Lookup(c, VideoKey(id))
  /\ UNCHANGED <<cli, extract, cleanup, viewer, shown, now, globalCache, batch>>

getChannelMetadata(c, id) ==
  /\ calls[c].pc \in {"idle", "done"}
  /\ Lookup(c, ChannelKey(id))
  /\ UNCHANGED <<cli, extract, cleanup, viewer, shown, now, globalCache, batch>>

Settle(r, status, o) == [requests EXCEPT ![r].stage = "settled", ![r].status = status, ![r].outcome = o]

\* Mutant of FetchDataResponse: the entry served on an error is cached anew.
FetchDataResponseRecache(r, status) ==
  LET k == requests[r].key IN
  /\ requests[r].stage = "fetch"
  /\ IF ResponseOk(status)
     THEN /\ requests' = [requests EXCEPT ![r].stage = "json", ![r].status = status]
          /\ UNCHANGED globalCache
     ELSE IF status = 400
     THEN /\ requests' = Settle(r, status, Rejected(InvalidIdError(k)))
          /\ UNCHANGED globalCache
     ELSE IF k \in DOMAIN globalCache
     THEN /\ requests' = Settle(r, status, Fulfilled(globalCache[k].data))
          /\ globalCache' = MapSet(globalCache, k, [data |-> globalCache[k].data, timestamp |-> now])
     ELSE /\ requests' = Settle(r, status, Rejected(HttpError))
          /\ UNCHANGED globalCache
  /\ UNCHANGED <<cli, extract, cleanup, viewer, shown, now, pendingRequests, calls, batch>>

\* Mutant of FetchDataResponse: no fallback to the cached entry.
FetchDataResponseNoStale(r, status) ==
  LET k == requests[r].key IN
  /\ requests[r].stage = "fetch"
  /\ IF ResponseOk(status)
     THEN requests' = [requests EXCEPT ![r].stage = "json", ![r].status = status]
     ELSE IF status = 400
     THEN requests' = Settle(r, status, Rejected(InvalidIdError(k)))
     ELSE requests' = Settle(r, status, Rejected(HttpError))
  /\ UNCHANGED <<cli, extract, cleanup, viewer, shown, now, globalCache, pendingRequests, calls, batch>>

\* Mutant of FetchDataResponse: the cached entry is looked for before the
\* status is compared with 400.
FetchDataResponseStaleFirst(r, status) ==
  LET k == requests[r].key IN
  /\ requests[r].stage = "fetch"
  /\ IF ResponseOk(status)
     THEN requests' = [requests EXCEPT ![r].stage = "json", ![r].status = status]
     ELSE IF k \in DOMAIN globalCache
     THEN requests' = Settle(r, status, Fulfilled(globalCache[k].data))
     ELSE IF status = 400
     THEN requests' = Settle(r, status, Rejected(InvalidIdError(k)))
     ELSE requests' = Settle(r, status, Rejected(HttpError))
  /\ UNCHANGED <<cli, extract, cleanup, viewer, shown, now, globalCache, pendingRequests, calls, batch>>

\* fetchVideoData/fetchChannelData once the HTTP response has arrived.
FetchDataResponse(r, status) ==
  LET k == requests[r].key IN
  /\ requests[r].stage = "fetch"
  /\ IF ResponseOk(status)
     THEN requests' = [requests EXCEPT ![r].stage = "json", ![r].status = status]
     ELSE IF status = 400
     THEN requests' = Settle(r, status, Rejected(InvalidIdError(k)))
     ELSE IF k \in DOMAIN globalCache
     THEN requests' = Settle(r, status, Fulfilled(globalCache[k].data))
     ELSE requests' = Settle(r, status, Rejected(HttpError))
  /\ UNCHANGED <<cli, extract, cleanup, viewer, shown, now, globalCache, pendingRequests, calls, batch>>

\* fetch() itself rejects: the catch block rethrows.
FetchDataNetworkError(r) ==
  /\ requests[r].stage = "fetch"
  /\ requests' = Settle(r, -1, Rejected(NetworkError))
  /\ UNCHANGED <<cli, extract, cleanup, viewer, shown, now, globalCache, pendingRequests, calls, batch>>

\* Mutant of FetchDataJson: the response is returned without being cached.
FetchDataJsonNoCache(r, success) ==
  /\ requests[r].stage = "json"
  /\ requests' = Settle(r, requests[r].status, Fulfilled(Response(r, success)))
  /\ UNCHANGED <<cli, extract, cleanup, viewer, shown, now, globalCache, pendingRequests, calls, batch>>

\* response.json() resolves: the entry is cached and the data returned.
FetchDataJson(r, success) ==
  LET k == requests[r].key
      data == Response(r, success) IN
  /\ requests[r].stage = "json"
  /\ globalCache' = MapSet(globalCache, k, [data |-> data, timestamp |-> now])
  /\ requests' = Settle(r, requests[r].status, Fulfilled(data))
  /\ UNCHANGED <<cli, extract, cleanup, viewer, shown, now, pendingRequests, calls, batch>>

\* response.json() rejects: the catch block rethrows.
FetchDataJsonError(r) ==
  /\ requests[r].stage = "json"
  /\ requests' = Settle(r, requests[r].status, Rejected(ParseError))
  /\ UNCHANGED <<cli, extract, cleanup, viewer, shown, now, globalCache, pendingRequests, calls, batch>>

\* Mutant of Resume: the deregistration follows the await instead of standing
\* in a finally block, so a rejected promise skips it.
ResumeNoFinally(c) ==
  LET r == calls[c].req IN
  /\ calls[c].pc = "await"
  /\ requests[r].stage = "settled"
  /\ pendingRequests' = IF calls[c].via = "own" /\ requests[r].outcome.kind = "value"
                        THEN MapDelete(pendingRequests, calls[c].key)
                        ELSE pendingRequests
  /\ calls' = [calls EXCEPT ![c].pc = "done", ![c].result = requests[r].outcome]
  /\ UNCHANGED <<cli, extract, cleanup, viewer, shown, now, globalCache, requests, batch>>

\* Mutant of Resume: only the call that issued the request is resumed, the
\* callers that joined the pending request are left waiting.
ResumeOwnOnly(c) ==
  LET r == calls[c].req IN
  /\ calls[c].pc = "await"
  /\ calls[c].via = "own"
  /\ requests[r].stage = "settled"
  /\ pendingRequests' = MapDelete(pendingRequests, calls[c].key)
  /\ calls' = [calls EXCEPT ![c].pc = "done", ![c].result = requests[r].outcome]
  /\ UNCHANGED <<cli, extract, cleanup, viewer, shown, now, globalCache, requests, batch>>

\* The continuation of getVideoMetadata/getChannelMetadata after its await:
\* the registering call deregisters in its finally block; every call returns
\* or rethrows what the promise settled with.
Resume(c) ==
  LET r == calls[c].req IN
  /\ calls[c].pc = "await"
  /\ requests[r].stage = "settled"
  /\ pendingRequests' = IF calls[c].via = "own"
                        THEN MapDelete(pendingRequests, calls[c].key)
                        ELSE pendingRequests
  /\ calls' = [calls EXCEPT ![c].pc = "done", ![c].result = requests[r].outcome]
  /\ UNCHANGED <<cli, extract, cleanup, viewer, shown, now, globalCache, requests, batch>>

Tick ==
  /\ now < MaxTicks * TickMs
  /\ now' = now + TickMs
  /\ UNCHANGED <<cli, extract, cleanup, viewer, shown, globalCache, pendingRequests, requests, calls, batch>>

\* ------------------------------------------------ the sequential orchestrator

Seqs(S, n) == UNION {[1..m -> S] : m \in 0..n}

\* Array.prototype.indexOf, 1-based: the first position holding x.
IndexOf(seq, x) == CHOOSE j \in 1..Len(seq) : seq[j] = x /\ \A h \in 1..(j - 1) : seq[h] # x

KeyOf(fn, id) == IF fn = "getVideosMetadata" THEN VideoKey(id) ELSE ChannelKey(id)

\* The head of the for loop: the next item's lookup is called, or the loop
\* is over and the results are returned.  b is the orchestrator's record at
\* the end of the previous iteration.
NextItem(b) ==
  IF b.i = Len(b.ids)
  THEN /\ batch' = [b EXCEPT !.pc = "done"]
       /\ calls' = [calls EXCEPT ![BatchCaller] = IdleCall]
       /\ UNCHANGED <<pendingRequests, requests>>
  ELSE /\ batch' = [b EXCEPT !.pc = "lookup", !.i = b.i + 1]
       /\ Lookup(BatchCaller, KeyOf(b.fn, b.ids[b.i + 1]))

getVideosMetadata(ids) ==
  /\ batch.pc = "idle"
  /\ NextItem([IdleBatch EXCEPT !.fn = "getVideosMetadata", !.ids = ids])
  /\ UNCHANGED <<cli, extract, cleanup, viewer, shown, now, globalCache>>

\* globalCache.has(key) && Date.now() - globalCache.get(key).timestamp < CACHE_DURATION
WasCached(k) == k \in DOMAIN globalCache /\ now - globalCache[k].timestamp < CACHE_DURATION

\* Mutant of LoopBody: the lookup is not awaited, the loop goes on while the
\* item's request is still out.
LoopBodyNoAwait ==
  LET res == calls[BatchCaller].result
      b1 == [batch EXCEPT !.outcomes = Append(@, res), !.vias = Append(@, calls[BatchCaller].via)]
      b2 == [b1 EXCEPT !.results = Append(@, res.data)]
  IN
  /\ batch.pc = "lookup"
  /\ IF res.kind = "value"
     THEN NextItem([b2 EXCEPT !.delays = Append(@, 0)])
     ELSE NextItem([b1 EXCEPT !.delays = Append(@, 0)])
  /\ UNCHANGED <<cli, extract, cleanup, viewer, shown, now, globalCache>>

\* Mutant of LoopBody: no try/catch around the item, a failed lookup ends the
\* loop.
LoopBodyAbort ==
  LET res == calls[BatchCaller].result
      id == batch.ids[batch.i]
      k == KeyOf(batch.fn, id)
      b1 == [batch EXCEPT !.outcomes = Append(@, res), !.vias = Append(@, calls[BatchCaller].via)]
      b2 == [b1 EXCEPT !.results = Append(@, res.data)]
  IN
  /\ batch.pc = "lookup"
  /\ calls[BatchCaller].pc = "done"
  /\ IF res.kind = "value"
     THEN IF IndexOf(batch.ids, id) < Len(batch.ids) /\ ~WasCached(k)
          THEN /\ batch' = [b2 EXCEPT !.pc = "delay", !.delays = Append(@, DELAY_MS)]
               /\ calls' = [calls EXCEPT ![BatchCaller] = IdleCall]
               /\ UNCHANGED <<pendingRequests, requests>>
          ELSE NextItem([b2 EXCEPT !.delays = Append(@, 0)])
     ELSE /\ batch' = [b1 EXCEPT !.pc = "done", !.delays = Append(@, 0)]
          /\ calls' = [calls EXCEPT ![BatchCaller] = IdleCall]
          /\ UNCHANGED <<pendingRequests, requests>>
  /\ UNCHANGED <<cli, extract, cleanup, viewer, shown, now, globalCache>>

\* The loop body after `await this.getVideoMetadata(id)` (resp.
\* getChannelMetadata): the response is pushed and the delay decided, or the
\* catch block skips the item.
LoopBody ==
  LET res == calls[BatchCaller].result
      id == batch.ids[batch.i]
      k == KeyOf(batch.fn, id)
      b1 == [batch EXCEPT !.outcomes = Append(@, res), !.vias = Append(@, calls[BatchCaller].via)]
      b2 == [b1 EXCEPT !.results = Append(@, res.data)]
  IN
  /\ batch.pc = "lookup"
  /\ calls[BatchCaller].pc = "done"
  /\ IF res.kind = "value"
     THEN IF IndexOf(batch.ids, id) < Len(batch.ids) /\ ~WasCached(k)
          THEN /\ batch' = [b2 EXCEPT !.pc = "delay", !.delays = Append(@, DELAY_MS)]
               /\ calls' = [calls EXCEPT ![BatchCaller] = IdleCall]
               /\ UNCHANGED <<pendingRequests, requests>>
          ELSE NextItem([b2 EXCEPT !.delays = Append(@, 0)])
     ELSE NextItem([b1 EXCEPT !.delays = Append(@, 0)])
  /\ UNCHANGED <<cli, extract, cleanup, viewer, shown, now, globalCache>>

\* The timer of this.delay(500) fires.
DelayDone ==
  /\ batch.pc = "delay"
  /\ NextItem(batch)
  /\ UNCHANGED <<cli, extract, cleanup, viewer, shown, now, globalCache>>

\* ------------------------------------------------------------ the batch API

\* The cache pass of getChannelsMetadataBatch.
CachedResults(ids) ==
  LET fresh == SelectSeq(ids, LAMBDA id : IsFresh(ChannelKey(id)))
  IN [j \in 1..Len(fresh) |-> globalCache[ChannelKey(fresh[j])].data]
UncachedChannelIds(ids) == SelectSeq(ids, LAMBDA id : ~IsFresh(ChannelKey(id)))

getChannelsMetadata(ids) ==
  /\ batch.pc = "idle"
  /\ batch' = [IdleBatch EXCEPT !.fn = "getChannelsMetadata", !.ids = ids,
                                !.results = IF ids = <<>> THEN <<>> ELSE CachedResults(ids),
                                !.uncached = UncachedChannelIds(ids),
                                !.pc = IF UncachedChannelIds(ids) = <<>> THEN "done" ELSE "post"]
  /\ UNCHANGED <<cli, extract, cleanup, viewer, shown, now, globalCache, pendingRequests, requests, calls>>

\* The catch block of getChannelsMetadataBatch: the whole input goes to the
\* sequential getChannelsMetadataFallback.
getChannelsMetadataFallback ==
  /\ NextItem([IdleBatch EXCEPT !.fn = "getChannelsMetadataFallback", !.ids = batch.ids])
  /\ UNCHANGED <<cli, extract, cleanup, viewer, shown, now, globalCache>>

\* Mutant of BatchResponse: a status that is not ok ends the call with what
\* the cache gave, no fallback.
BatchResponseNoFallback(status) ==
  /\ batch.pc = "post"
  /\ batch' = [batch EXCEPT !.pc = IF ResponseOk(status) THEN "postJson" ELSE "done"]
  /\ UNCHANGED <<cli, extract, cleanup, viewer, shown, now, globalCache, pendingRequests, requests, calls>>

\* The POST to /batch/channels is answered.
BatchResponse(status) ==
  /\ batch.pc = "post"
  /\ IF ResponseOk(status)
     THEN /\ batch' = [batch EXCEPT !.pc = "postJson"]
          /\ UNCHANGED <<cli, extract, cleanup, viewer, shown, now, globalCache, pendingRequests, requests, calls>>
     ELSE getChannelsMetadataFallback

BatchNetworkError ==
  /\ batch.pc = "post"
  /\ getChannelsMetadataFallback

\* What the batch response says of one channel: isLive with videoData, not
\* live, or an error (no result, or isLive without videoData).
ChannelResults == {"live", "notLive", "error"}

\* The youtubeResponse object built for the j-th uncached channel (the
\* responses of the single lookups are numbered from 1).
BatchObject(j) == 0 - j

\* The conversion loop over uncachedChannelIds, from its j-th item on: st is
\* the cache and the results so far.
RECURSIVE Convert(_, _, _, _)
Convert(uncached, res, j, st) ==
  IF j > Len(uncached) THEN st
  ELSE LET k == ChannelKey(uncached[j])
           r == res[uncached[j]]
       IN IF r = "live"
          THEN Convert(uncached, res, j + 1,
                 [cache |-> MapSet(st.cache, k, [data |-> Response(BatchObject(j), TRUE), timestamp |-> now]),
                  results |-> Append(st.results, Response(BatchObject(j), TRUE))])
          ELSE IF r = "notLive"
          THEN Convert(uncached, res, j + 1,
                 [cache |-> MapSet(st.cache, k, [data |-> Response(BatchObject(j), FALSE), timestamp |-> now]),
                  results |-> st.results])
          ELSE Convert(uncached, res, j + 1, st)

\* response.json() of the batch response resolves.
BatchJson(success, res) ==
  /\ batch.pc = "postJson"
  /\ IF ~success
     THEN getChannelsMetadataFallback
     ELSE LET st == Convert(batch.uncached, res, 1, [cache |-> globalCache, results |-> batch.results])
          IN /\ globalCache' = st.cache
             /\ batch' = [batch EXCEPT !.pc = "done", !.results = st.results]
             /\ UNCHANGED <<cli, extract, cleanup, viewer, shown, now, pendingRequests, requests, calls>>

BatchJsonError ==
  /\ batch.pc = "postJson"
  /\ getChannelsMetadataFallback

\* getChannelsMetadata returns its list to its caller, who may call again.
BatchReturn ==
  /\ batch.pc = "done"
  /\ batch' = IdleBatch
  /\ UNCHANGED <<cli, extract, cleanup, viewer, shown, now, globalCache, pendingRequests, requests, calls>>

Range(seq) == {seq[j] : j \in 1..Len(seq)}

\* ------------------------------------------- viewers.mjs: live resolution

\* Mutant of FetchText: no status check, an HTTP error status reads as an
\* empty text.
FetchTextNoThrow(resp) ==
  IF resp.status = -1
  THEN [ok |-> FALSE, error |-> "fetch failed", r |-> resp, text |-> EmptyHtml]
  ELSE [ok |-> TRUE, error |-> "", r |-> resp,
        text |-> IF resp.status >= 300 THEN EmptyHtml ELSE resp.body]

\* fetchText once fetch() has settled with resp: it rejects when fetch() has,
\* throws on a status that is neither 2xx nor 3xx, and gives {r, text}, the
\* text being empty for a status from 300 on.
FetchText(resp) ==
  IF resp.status = -1
  THEN [ok |-> FALSE, error |-> "fetch failed", r |-> resp, text |-> EmptyHtml]
  ELSE IF ~ResponseOk(resp.status) /\ ~(resp.status >= 300 /\ resp.status < 400)
  THEN [ok |-> FALSE, error |-> "HTTP", r |-> resp, text |-> EmptyHtml]
  ELSE [ok |-> TRUE, error |-> "", r |-> resp,
        text |-> IF resp.status >= 300 THEN EmptyHtml ELSE resp.body]

\* Mutant of MatchQueryV: the pattern never matches.
MatchQueryVNever(loc) == Null

\* String(loc).match(/[?&]v=([a-zA-Z0-9_-]{11})/) and
\* String(loc).match(/watch\?v=([a-zA-Z0-9_-]{11})/): the id matched, or null.
MatchQueryV(loc) == loc.query
MatchWatchV(loc) == loc.watch

\* Mutant of isLiveNowFromHtml: every page passes.
isLiveNowAlways(html) == TRUE

isLiveNowFromHtml(html) == html.isLiveNow \/ html.isLiveFlag \/ html.watchingNow

\* found.find((n) => Number.isFinite(n) && n >= 0) ?? null
deepPickConcurrentViewers(obj) ==
  LET ok == SelectSeq(obj.found, LAMBDA n : n >= 0)
  IN IF ok = <<>> THEN Null ELSE Just(ok[1])

\* Mutant of PickViewers: the number in the raw HTML is looked for first.
PickViewersRawFirst(html) ==
  IF html.phrase # Null THEN html.phrase
  ELSE IF html.initialData.parsed /\ deepPickConcurrentViewers(html.initialData) # Null
  THEN deepPickConcurrentViewers(html.initialData)
  ELSE IF html.playerResp.parsed THEN deepPickConcurrentViewers(html.playerResp)
  ELSE Null

\* The three attempts of getConcurrentViewersFromChannel on the watch page.
PickViewers(html) ==
  LET initialData == html.initialData
      playerResp == html.playerResp
      lv1 == IF initialData.parsed THEN deepPickConcurrentViewers(initialData) ELSE Null
      lv2 == IF lv1 = Null /\ playerResp.parsed
             THEN LET fallback == deepPickConcurrentViewers(playerResp)
                  IN IF fallback # Null THEN fallback ELSE lv1
             ELSE lv1
      lv3 == IF lv2 = Null
             THEN IF html.phrase # Null THEN html.phrase ELSE lv2
             ELSE lv2
  IN lv3

\* The fetch under way has settled with resp.
Answer(v, resp) == [v EXCEPT !.fetches[Len(v.fetches)].response = resp]

\* An error leaves getConcurrentViewersFromChannel: no try/catch on the way.
Throw(v, e) == [v EXCEPT !.pc = "done", !.result = [NoResult EXCEPT !.kind = "error", !.error = e]]

\* resolveLiveVideoIdStrict returns null: the caller returns the not-live
\* result.
ReturnNotLive(v) == [v EXCEPT !.pc = "done", !.result = [NoResult EXCEPT !.kind = "value"]]

\* resolveLiveVideoIdStrict returns id: the caller fetches the watch page.
ReturnVideoId(v, id) ==
  [v EXCEPT !.pc = "watch", !.videoId = Just(id),
            !.fetches = Append(@, Fetch("viewers", YT_WATCH(id), "follow"))]

\* Mutant of ScanHtml: a page without a videoId literal is an error.
ScanHtmlThrow(v, html) ==
  IF html.empty \/ html.videoId = Null THEN Throw(v, "no videoId")
  ELSE [v EXCEPT !.pc = "verify", !.candidate = html.videoId,
                 !.fetches = Append(@, Fetch("resolve", YT_WATCH(html.videoId[1]), "follow"))]

\* The HTML of the /live page is there: null without a text or without a
\* videoId literal, else the candidate's watch page is fetched.
ScanHtml(v, html) ==
  IF html.empty THEN ReturnNotLive(v)
  ELSE IF html.videoId = Null THEN ReturnNotLive(v)
  ELSE [v EXCEPT !.pc = "verify", !.candidate = html.videoId,
                 !.fetches = Append(@, Fetch("resolve", YT_WATCH(html.videoId[1]), "follow"))]

getConcurrentViewersFromChannel(channelId) ==
  /\ viewer.pc = "idle"
  /\ viewer' = [IdleViewer EXCEPT !.pc = "step1", !.channelId = channelId,
                                  !.fetches = <<Fetch("resolve", YT_LIVE_CHANNEL(channelId), "manual")>>]
  /\ UNCHANGED <<cli, extract, cleanup, shown, now, globalCache, pendingRequests, requests, calls, batch>>

\* Mutant of Step1Response: the text of the first answer is scanned even when
\* it is empty, the channel is never requested again.
Step1ResponseNoSecond(resp) ==
  LET v == Answer(viewer, resp)
      ft == FetchText(resp)
      loc == ft.r.location
  IN
  /\ viewer.pc = "step1"
  /\ viewer' =
       IF ~ft.ok THEN Throw(v, ft.error)
       ELSE IF ft.r.status >= 300 /\ ft.r.status < 400 /\ loc # Null /\ MatchQueryV(loc[1]) # Null
       THEN ReturnVideoId(v, MatchQueryV(loc[1])[1])
       ELSE IF ft.r.status >= 300 /\ ft.r.status < 400 /\ loc # Null /\ MatchWatchV(loc[1]) # Null
       THEN ReturnVideoId(v, MatchWatchV(loc[1])[1])
       ELSE ScanHtml(v, ft.text)
  /\ UNCHANGED <<cli, extract, cleanup, shown, now, globalCache, pendingRequests, requests, calls, batch>>

\* The request with redirect: "manual" has settled.
Step1Response(resp) ==
  LET v == Answer(viewer, resp)
      ft == FetchText(resp)
      loc == ft.r.location
  IN
  /\ viewer.pc = "step1"
  /\ viewer' =
       IF ~ft.ok THEN Throw(v, ft.error)
       ELSE IF ft.r.status >= 300 /\ ft.r.status < 400 /\ loc # Null /\ MatchQueryV(loc[1]) # Null
       THEN ReturnVideoId(v, MatchQueryV(loc[1])[1])
       ELSE IF ft.r.status >= 300 /\ ft.r.status < 400 /\ loc # Null /\ MatchWatchV(loc[1]) # Null
       THEN ReturnVideoId(v, MatchWatchV(loc[1])[1])
       ELSE IF ft.text.empty
       THEN [v EXCEPT !.pc = "step2",
                      !.fetches = Append(@, Fetch("resolve", YT_LIVE_CHANNEL(v.channelId), "follow"))]
       ELSE ScanHtml(v, ft.text)
  /\ UNCHANGED <<cli, extract, cleanup, shown, now, globalCache, pendingRequests, requests, calls, batch>>

\* The second request, with redirect: "follow", has settled.
Step2Response(resp) ==
  LET v == Answer(viewer, resp)
      second == FetchText(resp)
  IN
  /\ viewer.pc = "step2"
  /\ viewer' = IF ~second.ok THEN Throw(v, second.error) ELSE ScanHtml(v, second.text)
  /\ UNCHANGED <<cli, extract, cleanup, shown, now, globalCache, pendingRequests, requests, calls, batch>>

\* The request of the candidate's watch page has settled.
VerifyResponse(resp) ==
  LET v == Answer(viewer, resp)
      ft == FetchText(resp)
  IN
  /\ viewer.pc = "verify"
  /\ viewer' = IF ~ft.ok THEN Throw(v, ft.error)
               ELSE IF isLiveNowFromHtml(ft.text) THEN ReturnVideoId(v, v.candidate[1])
               ELSE ReturnNotLive(v)
  /\ UNCHANGED <<cli, extract, cleanup, shown, now, globalCache, pendingRequests, requests, calls, batch>>

\* The request of the live video's watch page has settled.
WatchResponse(resp) ==
  LET v == Answer(viewer, resp)
      ft == FetchText(resp)
  IN
  /\ viewer.pc = "watch"
  /\ viewer' = IF ~ft.ok THEN Throw(v, ft.error)
               ELSE [v EXCEPT !.pc = "done",
                              !.result = [NoResult EXCEPT !.kind = "value", !.videoId = v.videoId,
                                                          !.liveViewers = PickViewers(ft.text)]]
  /\ UNCHANGED <<cli, extract, cleanup, shown, now, globalCache, pendingRequests, requests, calls, batch>>

\* ------------------------------------------------ the command line (viewers.mjs)

\* The script is run with process.argv[2] absent, the empty string, or a text
\* (its characters).  Without a channel id that starts with UC
\* (channelId.startsWith("UC")) the process exits with 1 on the spot; else
\* getConcurrentViewersFromChannel is called and the first request goes out.
Main(arg) ==
  /\ cli.pc = "idle"
  /\ viewer.pc = "idle"
  /\ IF arg = Null \/ arg = Just(<<>>) \/ Len(arg[1]) < 2 \/ SubSeq(arg[1], 1, 2) # <<"U", "C">>
     THEN /\ cli' = [cli EXCEPT !.pc = "exited", !.argv = arg, !.exitCode = 1]
          /\ UNCHANGED viewer
     ELSE /\ cli' = [cli EXCEPT !.pc = "running", !.argv = arg]
          /\ viewer' = [IdleViewer EXCEPT !.pc = "step1", !.channelId = arg[1],
                                          !.fetches = <<Fetch("resolve", YT_LIVE_CHANNEL(arg[1]), "manual")>>]
  /\ UNCHANGED <<extract, cleanup, shown, now, globalCache, pendingRequests, requests, calls, batch>>

\* Mutant of CliThen: the exit code is left alone.
CliThenNoExitCode ==
  /\ cli.pc = "running"
  /\ viewer.pc = "done"
  /\ viewer.result.kind = "value"
  /\ cli' = [cli EXCEPT !.pc = "exited", !.stdout = Just([channelId |-> viewer.channelId, videoId |-> viewer.result.videoId,
                                         liveViewers |-> viewer.result.liveViewers])]
  /\ UNCHANGED <<extract, cleanup, viewer, shown, now, globalCache, pendingRequests, requests, calls, batch>>

\* .then((res) => ...): the result is printed (the fields JSON.stringify(res)
\* writes), process.exitCode becomes 3 without a videoId, and the process
\* ends with process.exitCode.
CliThen ==
  /\ cli.pc = "running"
  /\ viewer.pc = "done"
  /\ viewer.result.kind = "value"
  /\ cli' = [cli EXCEPT !.pc = "exited", !.stdout = Just([channelId |-> viewer.channelId, videoId |-> viewer.result.videoId,
                                         liveViewers |-> viewer.result.liveViewers]),
                        !.exitCode = IF viewer.result.videoId = Null THEN 3 ELSE @]
  /\ UNCHANGED <<extract, cleanup, viewer, shown, now, globalCache, pendingRequests, requests, calls, batch>>

\* .catch((e) => ...): process.exit(2), nothing on standard output.
CliCatch ==
  /\ cli.pc = "running"
  /\ viewer.pc = "done"
  /\ viewer.result.kind = "error"
  /\ cli' = [cli EXCEPT !.pc = "exited", !.exitCode = 2]
  /\ UNCHANGED <<extract, cleanup, viewer, shown, now, globalCache, pendingRequests, requests, calls, batch>>

\* ------------------------------- viewers.mjs: the extraction, on the texts

\* A text is the sequence of its characters.  NBSP stands for U+00A0.
NBSP == "nbsp"
Digits == <<"0", "1", "2", "3", "4", "5", "6", "7", "8", "9">>

\* \d
IsDigit(ch) == \E d \in 1..10 : Digits[d] = ch

\* \s (U+00A0 is white space to a JavaScript regular expression), and the
\* class [.,\s].
IsSpace(ch) == ch \in {" ", "\t", "\n", NBSP}
IsSeparator(ch) == ch \in {".", ","} \/ IsSpace(ch)

\* s.replace(/\u00A0/g, " ")
NormalizeSpaces(s) == [j \in 1..Len(s) |-> IF s[j] = NBSP THEN " " ELSE s[j]]

\* The number of digits of s from position j on.
RECURSIVE DigitRun(_, _)
DigitRun(s, j) == IF j <= Len(s) /\ IsDigit(s[j]) THEN 1 + DigitRun(s, j + 1) ELSE 0

\* ([.,\s]\d{3})* from position j on, greedy: the position after its match.
RECURSIVE GroupsEnd(_, _)
GroupsEnd(s, j) ==
  IF j + 3 <= Len(s) /\ IsSeparator(s[j]) /\ DigitRun(s, j + 1) >= 3
  THEN GroupsEnd(s, j + 4)
  ELSE j

\* The alternation /(\d{1,3}([.,\s]\d{3})*|\d+)/ tried at position j: the
\* text matched, or null.  The second alternative is tried when the first
\* one fails.
AlternationAt(s, j) ==
  LET lead == IF DigitRun(s, j) > 3 THEN 3 ELSE DigitRun(s, j)
      grouped == IF lead = 0 THEN Null ELSE Just(SubSeq(s, j, GroupsEnd(s, j + lead) - 1))
      digits == IF DigitRun(s, j) = 0 THEN Null ELSE Just(SubSeq(s, j, j + DigitRun(s, j) - 1))
  IN IF grouped # Null THEN grouped ELSE digits

\* normalized.match(re): match[0] of the leftmost match, or null.
RECURSIVE MatchFrom(_, _)
MatchFrom(s, j) ==
  IF j > Len(s) THEN Null
  ELSE IF AlternationAt(s, j) # Null THEN AlternationAt(s, j)
  ELSE MatchFrom(s, j + 1)

\* Mutant of StripSeparators: the separators stay.
StripNothing(m) == m

\* match[0].replace(/[.,\s]/g, "")
StripSeparators(m) == SelectSeq(m, LAMBDA ch : ~IsSeparator(ch))

\* Number(digits) of a text of digits, NaN (here null) for another text that
\* is not empty; Number("") is 0.
RECURSIVE DecimalValue(_)
DecimalValue(digits) ==
  IF digits = <<>> THEN 0
  ELSE LET last == (CHOOSE d \in 1..10 : Digits[d] = digits[Len(digits)]) - 1
       IN 10 * DecimalValue(SubSeq(digits, 1, Len(digits) - 1)) + last
ToNumber(digits) ==
  IF \A j \in 1..Len(digits) : IsDigit(digits[j]) THEN Just(DecimalValue(digits)) ELSE Null

\* extractNumberFromText(s): a number, or null.
extractNumberFromText(s) ==
  IF s = <<>> THEN Null
  ELSE LET match == MatchFrom(NormalizeSpaces(s), 1)
       IN IF match = Null THEN Null ELSE ToNumber(StripSeparators(match[1]))

\* The longest of the enumerated texts extractNumberFromText is called with.
MaxTextLen == 5

\* A call of extractNumberFromText returns.
ExtractNumberFromText ==
  /\ extract.pc = "idle"
  /\ extract.fn = "extractNumberFromText"
  /\ extract' = [extract EXCEPT !.pc = "done", !.output = extractNumberFromText(extract.input)]
  /\ UNCHANGED <<cli, cleanup, viewer, shown, now, globalCache, pendingRequests, requests, calls, batch>>

\* ------------------------- viewers.mjs: the traversal of a JSON document

\* A JSON value: null, a string (its characters), an array, or an object,
\* the sequence of its <<key, value>> pairs in the order of Object.keys.
\* Undefined is what reading an absent property gives.
JNull == [type |-> "null"]
Undefined == [type |-> "undefined"]
Str(chars) == [type |-> "string", chars |-> chars]
Arr(items) == [type |-> "array", items |-> items]
Obj(pairs) == [type |-> "object", pairs |-> pairs]

\* o[k], and o?.[k] for a value that may not be an object.
Get(o, k) ==
  IF o.type = "object" /\ \E j \in 1..Len(o.pairs) : o.pairs[j][1] = k
  THEN o.pairs[CHOOSE j \in 1..Len(o.pairs) : o.pairs[j][1] = k][2]
  ELSE Undefined

\* v && typeof v === "object"; the values of Object.keys(o) in order.
IsObjectLike(v) == v.type \in {"object", "array"}
Values(o) == IF o.type = "array" THEN o.items ELSE [j \in 1..Len(o.pairs) |-> o.pairs[j][2]]

\* The flag i of the regular expressions.
ToLower(ch) ==
  LET UpperCase == <<"A", "B", "C", "D", "E", "F", "G", "H", "I", "J", "K", "L", "M", "N", "O", "P", "Q", "R", "S", "T", "U", "V", "W", "X", "Y", "Z">>
      LowerCase == <<"a", "b", "c", "d", "e", "f", "g", "h", "i", "j", "k", "l", "m", "n", "o", "p", "q", "r", "s", "t", "u", "v", "w", "x", "y", "z">>
  IN IF \E j \in 1..26 : UpperCase[j] = ch THEN LowerCase[CHOOSE j \in 1..26 : UpperCase[j] = ch] ELSE ch

\* /(watching now|espectadores|mirando ahora|viendo ahora)/i.test(text)
Phrases ==
  {<<"w", "a", "t", "c", "h", "i", "n", "g", " ", "n", "o", "w">>,
   <<"e", "s", "p", "e", "c", "t", "a", "d", "o", "r", "e", "s">>,
   <<"m", "i", "r", "a", "n", "d", "o", " ", "a", "h", "o", "r", "a">>,
   <<"v", "i", "e", "n", "d", "o", " ", "a", "h", "o", "r", "a">>}
HasPhrase(text) ==
  LET lower == [j \in 1..Len(text) |-> ToLower(text[j])]
  IN \E p \in Phrases : \E a \in 1..(Len(lower) - Len(p) + 1) : SubSeq(lower, a, a + Len(p) - 1) = p

\* runs.map((r) => r.text): reading .text of null or undefined throws; the
\* text of an item, undefined when it has none.
RunsThrow(runs) == \E j \in 1..Len(runs.items) : runs.items[j].type \in {"null", "undefined"}
RunTexts(runs) == [j \in 1..Len(runs.items) |-> Get(runs.items[j], "text")]

\* Array.prototype.join(" ") of strings, undefined giving the empty text.
RECURSIVE Join(_)
Join(texts) ==
  IF texts = <<>> THEN <<>>
  ELSE LET head == IF texts[1].type = "string" THEN texts[1].chars ELSE <<>>
       IN IF Len(texts) = 1 THEN head ELSE head \o <<" ">> \o Join(Tail(texts))

\* .filter(Boolean) on the texts: undefined and the empty string go.
Truthy(v) == v.type = "string" /\ v.chars # <<>>

\* found.push(n) when n !== null.  The state of a walk is found and whether
\* an exception was thrown on the way.
Push(st, n) == IF n = Null THEN st ELSE [st EXCEPT !.found = Append(@, n[1])]

\* if (o.viewCount?.runs && Array.isArray(o.viewCount.runs)) ...
WalkViewCountRuns(o, st) ==
  LET runs == Get(Get(o, "viewCount"), "runs")
  IN IF runs.type # "array" THEN st
     ELSE IF RunsThrow(runs) THEN [st EXCEPT !.threw = TRUE]
     ELSE Push(st, extractNumberFromText(Join(RunTexts(runs))))

\* if (o.viewCount?.simpleText && typeof o.viewCount.simpleText === "string") ...
WalkSimpleText(o, st) ==
  LET simpleText == Get(Get(o, "viewCount"), "simpleText")
  IN IF Truthy(simpleText) THEN Push(st, extractNumberFromText(simpleText.chars)) ELSE st

\* if (o.runs && Array.isArray(o.runs)) ...
WalkRuns(o, st) ==
  LET runs == Get(o, "runs")
  IN IF runs.type # "array" THEN st
     ELSE IF RunsThrow(runs) THEN [st EXCEPT !.threw = TRUE]
     ELSE LET joined == Join(SelectSeq(RunTexts(runs), Truthy))
          IN IF HasPhrase(joined) THEN Push(st, extractNumberFromText(joined)) ELSE st

\* walk(o) with found as it is in st, and the loop over Object.keys(o) from
\* its j-th key on; an exception ends both.
RECURSIVE walk(_, _), WalkKeys(_, _, _)
WalkKeys(o, j, st) ==
  IF st.threw \/ j > Len(Values(o)) THEN st
  ELSE LET v == Values(o)[j]
       IN IF v.type = "string" /\ HasPhrase(v.chars)
          THEN WalkKeys(o, j + 1, Push(st, extractNumberFromText(v.chars)))
          ELSE IF IsObjectLike(v) THEN WalkKeys(o, j + 1, walk(v, st))
          ELSE WalkKeys(o, j + 1, st)

\* Mutant of walk: the keys of the node are gone through before its
\* viewCount and runs are looked at.
WalkKeysFirst(o, st) ==
  IF st.threw \/ ~IsObjectLike(o) THEN st
  ELSE LET s0 == WalkKeys(o, 1, st)
           s1 == IF s0.threw THEN s0 ELSE WalkViewCountRuns(o, s0)
           s2 == IF s1.threw THEN s1 ELSE WalkSimpleText(o, s1)
       IN IF s2.threw THEN s2 ELSE WalkRuns(o, s2)

walk(o, st) ==
  IF st.threw \/ ~IsObjectLike(o) THEN st
  ELSE LET s1 == WalkViewCountRuns(o, st)
           s2 == IF s1.threw THEN s1 ELSE WalkSimpleText(o, s1)
           s3 == IF s2.threw THEN s2 ELSE WalkRuns(o, s2)
       IN WalkKeys(o, 1, s3)

\* deepPickConcurrentViewers(obj) on the document itself: the walk, then the
\* first number found that is not negative; null when the walk threw.
deepPick(obj) ==
  LET st == walk(obj, [found |-> <<>>, threw |-> FALSE])
  IN IF st.threw THEN Null ELSE deepPickConcurrentViewers(st)

\* A call of deepPickConcurrentViewers returns.
DeepPickConcurrentViewers ==
  /\ extract.pc = "idle"
  /\ extract.fn = "deepPickConcurrentViewers"
  /\ extract' = [extract EXCEPT !.pc = "done", !.output = deepPick(extract.input)]
  /\ UNCHANGED <<cli, cleanup, viewer, shown, now, globalCache, pendingRequests, requests, calls, batch>>

\* ------------------------------ viewers.mjs: isLiveNowFromHtml, on the text

\* What extractJsonFromHtml meets for one of its two patterns: no match, a
\* match whose text JSON.parse rejects, a match that parses to a value.
NoMatch == [match |-> FALSE, valid |-> FALSE, value |-> Undefined]
Unparsable == [match |-> TRUE, valid |-> FALSE, value |-> Undefined]
Parsed(v) == [match |-> TRUE, valid |-> TRUE, value |-> v]

\* A function returns a value, or throws.
Returned(v) == [kind |-> "return", value |-> v]
Threw == [kind |-> "throw", value |-> JNull]

\* Mutant of extractJsonFromHtml: JSON.parse without try/catch.
extractJsonFromHtmlNoCatch(html, varName) ==
  LET m1 == html.scripts[varName].assigned
      m2 == html.scripts[varName].quoted
  IN IF m1.match THEN (IF m1.valid THEN Returned(m1.value) ELSE Threw)
     ELSE IF m2.match THEN (IF m2.valid THEN Returned(m2.value) ELSE Threw)
     ELSE Returned(JNull)

\* extractJsonFromHtml(html, varName): the pattern `varName = {...};`, then
\* the pattern `"varName": {...}`; a text that does not parse is passed over.
extractJsonFromHtml(html, varName) ==
  LET m1 == html.scripts[varName].assigned
      m2 == html.scripts[varName].quoted
  IN IF m1.match /\ m1.valid THEN Returned(m1.value)
     ELSE IF m2.match /\ m2.valid THEN Returned(m2.value)
     ELSE Returned(JNull)

\* player?.microformat?.playerMicroformatRenderer?.liveBroadcastDetails?.isLiveNow === true
MicroformatIsLiveNow(player) ==
  Get(Get(Get(Get(player, "microformat"), "playerMicroformatRenderer"), "liveBroadcastDetails"),
      "isLiveNow") = [type |-> "boolean", value |-> TRUE]

\* /"isLiveNow"\s*:\s*true/.test(html)
RECURSIVE SkipSpaces(_, _)
SkipSpaces(s, j) == IF j <= Len(s) /\ IsSpace(s[j]) THEN SkipSpaces(s, j + 1) ELSE j
StartsAt(s, j, word) == j + Len(word) - 1 <= Len(s) /\ SubSeq(s, j, j + Len(word) - 1) = word
IsLiveTokenAt(s, j) ==
  LET quoted == <<"\"", "i", "s", "L", "i", "v", "e", "N", "o", "w", "\"">>
      colon == SkipSpaces(s, j + Len(quoted))
  IN /\ StartsAt(s, j, quoted)
     /\ StartsAt(s, colon, <<":">>)
     /\ StartsAt(s, SkipSpaces(s, colon + 1), <<"t", "r", "u", "e">>)

\* isLiveNowFromHtml(html) on the text of the page: the three indicators
\* are read, then Boolean(isLiveNow || hasIsLiveFlag || hasWatchingNow).
isLiveNowFromHtmlText(html) ==
  LET player == extractJsonFromHtml(html, "ytInitialPlayerResponse")
  IN IF player.kind = "throw" THEN Threw
     ELSE Returned(isLiveNowFromHtml(Html(html.text = <<>>, Null, MicroformatIsLiveNow(player.value),
                                           \E j \in 1..Len(html.text) : IsLiveTokenAt(html.text, j),
                                           HasPhrase(html.text),
                                           NoJson, NoJson, Null)))

\* A call of isLiveNowFromHtml returns.
IsLiveNowFromHtml ==
  /\ extract.pc = "idle"
  /\ extract.fn = "isLiveNowFromHtml"
  /\ extract' = [extract EXCEPT !.pc = "done", !.output = isLiveNowFromHtmlText(extract.input)]
  /\ UNCHANGED <<cli, cleanup, viewer, shown, now, globalCache, pendingRequests, requests, calls, batch>>

\* ------------------------------------------------- the chat cleanup service

MESSAGE_TTL == 7200000

\* How UserChannelsService.getLiveStreamsFromAllChannels ends: it returns
\* the live streams, or the list of channel ids could not be read, or the
\* metadata of the channels could not be fetched; it catches every error and
\* returns [] then.
getLiveStreamsFromAllChannels(outcome, live) == IF outcome = "ok" THEN live ELSE {}

\* isMessageExpired(messageTimestamp, now)
isMessageExpired(messageTimestamp, sweepNow) ==
  IF messageTimestamp = Null THEN TRUE ELSE sweepNow - messageTimestamp[1] > MESSAGE_TTL

\* The forEach of performCleanup: the messages put into the write batch.
ShouldDelete(snapshot, liveStreamIds, sweepNow) ==
  {m \in snapshot : m.streamId \notin liveStreamIds \/ isMessageExpired(m.timestamp, sweepNow)}

\* performCleanup is called, by startCleanupService or by its timer.
PerformCleanup ==
  /\ cleanup.pc = "idle"
  /\ cleanup' = [cleanup EXCEPT !.pc = "lookup"]
  /\ UNCHANGED <<cli, extract, viewer, shown, now, globalCache, pendingRequests, requests, calls, batch>>

\* await UserChannelsService.getLiveStreamsFromAllChannels() resolves; the
\* ids of the streams it returned are kept and getDocs is called.
LiveStreamsReturned(outcome) ==
  /\ cleanup.pc = "lookup"
  /\ cleanup' = [cleanup EXCEPT !.pc = "getDocs", !.outcome = outcome,
                                !.liveStreamIds = getLiveStreamsFromAllChannels(outcome, cleanup.live)]
  /\ UNCHANGED <<cli, extract, viewer, shown, now, globalCache, pendingRequests, requests, calls, batch>>

\* await getDocs(chatCollection) resolves at time sweepNow: no message, no
\* message to delete, or the batch is committed.
GetDocsReturned(sweepNow) ==
  LET snapshot == cleanup.messages
      toDelete == ShouldDelete(snapshot, cleanup.liveStreamIds, sweepNow)
  IN
  /\ cleanup.pc = "getDocs"
  /\ cleanup' = [cleanup EXCEPT !.pc = IF snapshot = {} \/ toDelete = {} THEN "done" ELSE "commit",
                                !.snapshot = snapshot, !.sweepNow = sweepNow, !.writeBatch = toDelete]
  /\ UNCHANGED <<cli, extract, viewer, shown, now, globalCache, pendingRequests, requests, calls, batch>>

\* getDocs rejects: the catch block logs the error.
GetDocsFailed ==
  /\ cleanup.pc = "getDocs"
  /\ cleanup' = [cleanup EXCEPT !.pc = "done"]
  /\ UNCHANGED <<cli, extract, viewer, shown, now, globalCache, pendingRequests, requests, calls, batch>>

\* await batch.commit() resolves: the messages of the batch are gone.
CommitDone ==
  /\ cleanup.pc = "commit"
  /\ cleanup' = [cleanup EXCEPT !.pc = "done", !.messages = @ \ cleanup.writeBatch,
                                !.deleted = cleanup.writeBatch]
  /\ UNCHANGED <<cli, extract, viewer, shown, now, globalCache, pendingRequests, requests, calls, batch>>

\* batch.commit() rejects: nothing is deleted, the catch block logs.
CommitFailed ==
  /\ cleanup.pc = "commit"
  /\ cleanup' = [cleanup EXCEPT !.pc = "done"]
  /\ UNCHANGED <<cli, extract, viewer, shown, now, globalCache, pendingRequests, requests, calls, batch>>

\* ------------------------------------------------------- the presentation

MaxViewers == 30

\* The viewer counts presented: none (null), the small ones, one in the
\* thousands and one in the millions.
PresentedCounts == {Null} \cup {Just(n) : n \in 0..MaxViewers} \cup {Just(1234), Just(1500000)}

\* (count / unit).toFixed(1): the tenths are rounded to the nearest.  (The
\* counts presented here are none halfway between two tenths.)
ToFixed1(count, unit) ==
  LET tenths == (count * 10 + unit \div 2) \div unit
  IN ToString(tenths \div 10) \o "." \o ToString(tenths % 10)

\* YouTubeService.formatViewers(count: number | null).
formatViewers(count) ==
  IF count = Null \/ count = Just(0) THEN "0"
  ELSE IF count[1] >= 1000000 THEN ToFixed1(count[1], 1000000) \o "M"
  ELSE IF count[1] >= 1000 THEN ToFixed1(count[1], 1000) \o "K"
  ELSE ToString(count[1])

\* UserChannelsService.transformToStreamData, its viewers field:
\* data.concurrentViewers || 0.
transformToStreamData(data) ==
  [viewers |-> IF data.concurrentViewers = Null \/ data.concurrentViewers = Just(0)
               THEN 0 ELSE data.concurrentViewers[1]]

\* formatViewers is given the count of the metadata as it is.
FormatViewers ==
  /\ shown.pc = "data"
  /\ shown' = [shown EXCEPT !.pc = "text", !.text = formatViewers(shown.concurrentViewers)]
  /\ UNCHANGED <<cli, extract, cleanup, viewer, now, globalCache, pendingRequests, requests, calls, batch>>

\* The metadata is made into the StreamData of a stream card.
TransformToStreamData ==
  /\ shown.pc = "data"
  /\ shown' = [shown EXCEPT !.pc = "stream",
                            !.viewers = transformToStreamData([concurrentViewers |-> shown.concurrentViewers]).viewers]
  /\ UNCHANGED <<cli, extract, cleanup, viewer, now, globalCache, pendingRequests, requests, calls, batch>>

\* StreamCard renders formatViewers(stream.viewers).
StreamCard ==
  /\ shown.pc = "stream"
  /\ shown' = [shown EXCEPT !.pc = "card", !.text = formatViewers(Just(shown.viewers))]
  /\ UNCHANGED <<cli, extract, cleanup, viewer, now, globalCache, pendingRequests, requests, calls, batch>>

\* --------------------------------------------------------- specifications

\* The upstream answers a request of the single lookups; bodies are the
\* values of the success field its JSON bodies may carry.
Upstream(bodies) ==
  \/ \E r \in DOMAIN requests, s \in Statuses : FetchDataResponse(r, s)
  \/ \E r \in DOMAIN requests : FetchDataNetworkError(r)
  \/ \E r \in DOMAIN requests, s \in bodies : FetchDataJson(r, s)
  \/ \E r \in DOMAIN requests : FetchDataJsonError(r)

\* Concurrent callers of the cached lookups, of one video and one channel.
\* The lookups never read the body they cache and return: one value of its
\* success field is enough here.
LookupChannelIds == {"c1"}

Next ==
  \/ \E c \in Callers, id \in VideoIds : getVideoMetadata(c, id)
  \/ \E c \in Callers, id \in LookupChannelIds : getChannelMetadata(c, id)
  \/ Upstream({TRUE})
  \/ \E c \in Callers : Resume(c)
  \/ Tick

Spec == Init /\ [][Next]_vars

\* One call of an orchestrator: getVideosMetadata, or getChannelsMetadata,
\* which falls back to getChannelsMetadataFallback.
NextBatch ==
  \/ \E ids \in Seqs(VideoIds, MaxBatchLen) : getVideosMetadata(ids)
  \/ \E ids \in Seqs(ChannelIds, MaxBatchLen) : getChannelsMetadata(ids)
  \/ \E s \in Statuses : BatchResponse(s)
  \/ BatchNetworkError
  \/ \E s \in BOOLEAN, res \in [Range(batch.uncached) -> ChannelResults] : BatchJson(s, res)
  \/ BatchJsonError
  \/ LoopBody
  \/ DelayDone
  \/ Upstream(BOOLEAN)
  \/ Resume(BatchCaller)
  \/ Tick

SpecBatch == Init /\ [][NextBatch]_vars

\* The two entry points of a channel together: a caller of getChannelMetadata
\* while getChannelsMetadata is called over and over, each call seeing the
\* cache the earlier calls left.  The single lookup's bodies are successes here.
EntryCaller == 1
EntryBatches == {<<"c1">>, <<"c1", "c2">>}

NextEntry ==
  \/ \E id \in LookupChannelIds : getChannelMetadata(EntryCaller, id)
  \/ \E ids \in EntryBatches : getChannelsMetadata(ids)
  \/ \E s \in Statuses : BatchResponse(s)
  \/ BatchNetworkError
  \/ \E s \in BOOLEAN, res \in [Range(batch.uncached) -> ChannelResults] : BatchJson(s, res)
  \/ BatchJsonError
  \/ LoopBody
  \/ DelayDone
  \/ BatchReturn
  \/ Upstream({TRUE})
  \/ \E c \in {EntryCaller, BatchCaller} : Resume(c)
  \/ Tick

SpecEntry == Init /\ [][NextEntry]_vars

\* getChannelsMetadata called over and over by one caller, each call seeing
\* the cache the earlier calls left; the batch endpoint and the single
\* lookups of the fallback answer in every way.
NextFallback ==
  \/ \E ids \in EntryBatches \cup {<<>>} : getChannelsMetadata(ids)
  \/ \E s \in Statuses : BatchResponse(s)
  \/ BatchNetworkError
  \/ \E s \in BOOLEAN, res \in [Range(batch.uncached) -> ChannelResults] : BatchJson(s, res)
  \/ BatchJsonError
  \/ LoopBody
  \/ DelayDone
  \/ BatchReturn
  \/ Upstream({TRUE})
  \/ Resume(BatchCaller)
  \/ Tick

SpecFallback == Init /\ [][NextFallback]_vars

\* One call of getConcurrentViewersFromChannel, the platform answering.
NextViewers ==
  \/ \E channelId \in ViewerChannels : getConcurrentViewersFromChannel(channelId)
  \/ \E resp \in Responses(ChannelPages) : Step1Response(resp)
  \/ \E resp \in Responses(ChannelPages) : Step2Response(resp)
  \/ \E resp \in Responses(VerifyPages) : VerifyResponse(resp)
  \/ \E resp \in Responses(WatchPages) : WatchResponse(resp)

SpecViewers == Init /\ [][NextViewers]_vars

\* One run of the script viewers.mjs, the platform answering.
NextCli ==
  \/ \E arg \in {Null, Just(<<>>), Just(<<"U">>), Just(<<"U", "C", "1">>), Just(<<"u", "c", "1">>),
                 Just(<<"x", "U", "C">>)} : Main(arg)
  \/ \E resp \in Responses(ChannelPages) : Step1Response(resp)
  \/ \E resp \in Responses(ChannelPages) : Step2Response(resp)
  \/ \E resp \in Responses(VerifyPages) : VerifyResponse(resp)
  \/ \E resp \in Responses(WatchPages) : WatchResponse(resp)
  \/ CliThen
  \/ CliCatch

SpecCli == Init /\ [][NextCli]_vars

\* The service and the script run in processes of their own: a behaviour is
\* one of the cached lookups or one of getConcurrentViewersFromChannel.
\* Progress does not depend on which key is looked up nor on what the watch
\* page says of the viewers: one key, and the watch pages of the verification.
NextProgress ==
  \/ /\ viewer.pc = "idle"
     /\ \/ \E c \in Callers, id \in VideoIds : getVideoMetadata(c, id)
        \/ Upstream({TRUE})
        \/ \E c \in Callers : Resume(c)
        \/ Tick
  \/ /\ requests = <<>> /\ now = 0 /\ \A c \in Procs : calls[c].pc = "idle"
     /\ \/ \E channelId \in ViewerChannels : getConcurrentViewersFromChannel(channelId)
        \/ \E resp \in Responses(ChannelPages) : Step1Response(resp)
        \/ \E resp \in Responses(ChannelPages) : Step2Response(resp)
        \/ \E resp \in Responses(VerifyPages) : VerifyResponse(resp)
        \/ \E resp \in Responses(VerifyPages) : WatchResponse(resp)

\* Request r of the single lookups gets its answer, and its body is read.
Settles(r) ==
  /\ r \in DOMAIN requests
  /\ \/ \E s \in Statuses : FetchDataResponse(r, s)
     \/ FetchDataNetworkError(r)
     \/ FetchDataJson(r, TRUE)
     \/ FetchDataJsonError(r)

\* Every HTTP request settles, and the continuation of an await runs once its
\* promise has settled.
SpecProgress ==
  /\ Init
  /\ [][NextProgress]_vars
  /\ \A r \in 1..MaxReqs : WF_vars(Settles(r))
  /\ \A c \in Callers : WF_vars(Resume(c))
  /\ WF_vars(\E resp \in Responses(ChannelPages) : Step1Response(resp))
  /\ WF_vars(\E resp \in Responses(ChannelPages) : Step2Response(resp))
  /\ WF_vars(\E resp \in Responses(VerifyPages) : VerifyResponse(resp))
  /\ WF_vars(\E resp \in Responses(VerifyPages) : WatchResponse(resp))

\* One call of an extraction function of viewers.mjs, whatever its argument:
\* extractNumberFromText with every text of up to MaxTextLen characters over
\* digits, the separators and a letter, and with the viewer-count strings of
\* the watch pages; deepPickConcurrentViewers with documents whose texts have
\* a number and a phrase, a number alone, a phrase alone, or neither;
\* isLiveNowFromHtml with pages whose text has pieces with and without the
\* token, with and without a phrase, alone and two in a row.
InitExtract ==
  LET
      TextAlphabet == {"1", "2", ",", ".", " ", NBSP, "w"}
      WatchingNow == <<" ", "w", "a", "t", "c", "h", "i", "n", "g", " ", "n", "o", "w">>
      CountTexts ==
        {<<"1", "2", ",", "4", "5", "3">>, <<"1", "2", ".", "4", "5", "3">>, <<"1", "2", " ", "4", "5", "3">>,
         <<"1", "2", NBSP, "4", "5", "3">>, <<"1", "2", ",", "4", "5", "3">> \o WatchingNow,
         <<"1", ",", "2", "3", "4">> \o WatchingNow, <<"1", "2", "3", "4">> \o WatchingNow,
         <<"1", "2", "4", "5", "3">> \o WatchingNow, <<"9", "8", "7">> \o WatchingNow,
         <<"1", ".", "2", "3", "4", ".", "5", "6", "7">>, <<"1", "2", "3", "4", "5", "6", "7">>}
      Texts == Seqs(TextAlphabet, MaxTextLen) \cup CountTexts
      TreeTexts ==
        {<<"1", ",", "2", "3", "4", " ", "w", "a", "t", "c", "h", "i", "n", "g", " ", "n", "o", "w">>,
         <<"5", " ", "W", "A", "T", "C", "H", "I", "N", "G", " ", "N", "O", "W">>,
         <<"7">>, <<"h", "i">>}
      RunItems ==
        {Obj(<<>>), JNull, Obj(<<<<"text", Str(<<"3">>)>>>>),
         Obj(<<<<"text", Str(<<"6", " ", "e", "s", "p", "e", "c", "t", "a", "d", "o", "r", "e", "s">>)>>>>)}
      RunsArrays == {Arr(<<>>)} \cup {Arr(<<r>>) : r \in RunItems} \cup {Arr(<<r, s>>) : r, s \in RunItems}
      ViewCountRuns == {Arr(<<Obj(<<<<"text", Str(<<"3">>)>>>>)>>), Arr(<<JNull>>)}

      \* The objects of at most two keys whose <<key, value>> pairs are in P.
      Objects(P) ==
        {Obj(<<>>)} \cup {Obj(<<p>>) : p \in P} \cup {Obj(<<p[1], p[2]>>) : p \in {q \in P \X P : q[1][1] # q[2][1]}}
      ViewCounts ==
        {JNull} \cup Objects({<<"simpleText", Str(t)>> : t \in TreeTexts} \cup {<<"runs", r>> : r \in ViewCountRuns})
      NodePairs ==
        {<<"viewCount", v>> : v \in ViewCounts} \cup {<<"runs", r>> : r \in RunsArrays}
          \cup {<<"title", Str(t)>> : t \in TreeTexts}
      Leaves == {Obj(<<>>)} \cup {Obj(<<p>>) : p \in NodePairs}
      Trees ==
        {JNull} \cup Objects(NodePairs \cup {<<"contents", c>> : c \in Leaves} \cup {<<"items", Arr(<<c>>)>> : c \in Leaves})
      \* The player responses a page may carry.
      LiveDetails(v) ==
        Obj(<<<<"microformat",
                Obj(<<<<"playerMicroformatRenderer", Obj(<<<<"liveBroadcastDetails", Obj(<<<<"isLiveNow", v>>>>)>>>>)>>>>)>>>>)
      Players ==
        {Obj(<<>>), Obj(<<<<"microformat", JNull>>>>), LiveDetails([type |-> "boolean", value |-> TRUE]), LiveDetails([type |-> "boolean", value |-> FALSE]),
         LiveDetails(Str(<<"t", "r", "u", "e">>)), LiveDetails(JNull)}
      PlayerBlobs == {NoMatch, Unparsable} \cup {Parsed(p) : p \in Players}

      \* The texts of the pages: pieces with and without the token, with and
      \* without a phrase, alone and two in a row.
      Pieces ==
        {<<>>,
         <<"\"", "i", "s", "L", "i", "v", "e", "N", "o", "w", "\"", ":", "t", "r", "u", "e">>,
         <<"\"", "i", "s", "L", "i", "v", "e", "N", "o", "w", "\"", " ", ":", "\n", " ", "t", "r", "u", "e">>,
         <<"\"", "i", "s", "L", "i", "v", "e", "N", "o", "w", "\"", ":", "f", "a", "l", "s", "e">>,
         <<"i", "s", "L", "i", "v", "e", "N", "o", "w", ":", "t", "r", "u", "e">>,
         <<"\"", "i", "s", "L", "i", "v", "e", "N", "o", "w", "\"", ":", "\"", "t", "r", "u", "e", "\"">>,
         <<"1", "2", " ", "W", "a", "t", "c", "h", "i", "n", "g", " ", "N", "o", "w">>,
         <<"E", "S", "P", "E", "C", "T", "A", "D", "O", "R", "E", "S">>,
         <<"v", "i", "e", "n", "d", "o", " ", " ", "a", "h", "o", "r", "a">>,
         <<"m", "i", "r", "a", "n", "d", "o", " ", "a", "h", "o", "r", "a", " ">>}
      PageTexts == {a \o b : a, b \in Pieces}
      Pages ==
        {[scripts |-> [v \in {"ytInitialPlayerResponse"} |-> [assigned |-> a, quoted |-> q]], text |-> t] :
           a \in PlayerBlobs, q \in PlayerBlobs, t \in PageTexts}
  IN
  /\ now = 0
  /\ globalCache = <<>>
  /\ pendingRequests = <<>>
  /\ requests = <<>>
  /\ calls = [c \in Procs |-> IdleCall]
  /\ batch = IdleBatch
  /\ viewer = IdleViewer
  /\ shown = IdleShown
  /\ cli = IdleCli
  /\ cleanup = IdleCleanup
  /\ extract \in {[IdleExtract EXCEPT !.fn = "extractNumberFromText", !.input = s] : s \in Texts}
                 \cup {[IdleExtract EXCEPT !.fn = "deepPickConcurrentViewers", !.input = d] : d \in Trees}
                 \cup {[IdleExtract EXCEPT !.fn = "isLiveNowFromHtml", !.input = h] : h \in Pages}

NextExtract ==
  \/ ExtractNumberFromText
  \/ DeepPickConcurrentViewers
  \/ IsLiveNowFromHtml

SpecExtract == InitExtract /\ [][NextExtract]_vars

\* One sweep of the chat cleanup service over any collection of messages,
\* with any set of streams live upstream.  A document of liveChats has the
\* stream of the message and its timestamp (none, or a time in ms).
InitCleanup ==
  LET StreamIds == {"s1", "s2"}
      ChatMessages == [streamId : StreamIds, timestamp : {Null, Just(0), Just(1)}]
  IN
  /\ now = 0
  /\ globalCache = <<>>
  /\ pendingRequests = <<>>
  /\ requests = <<>>
  /\ calls = [c \in Procs |-> IdleCall]
  /\ batch = IdleBatch
  /\ viewer = IdleViewer
  /\ shown = IdleShown
  /\ cli = IdleCli
  /\ extract = IdleExtract
  /\ cleanup \in {[IdleCleanup EXCEPT !.messages = m, !.live = l] :
                    m \in SUBSET ChatMessages, l \in SUBSET StreamIds}

\* At the time of the sweep the message of time 0 is older than the TTL,
\* the one of time 1 is not.
NextCleanup ==
  \/ PerformCleanup
  \/ \E outcome \in {"ok", "channelIdsFailed", "metadataFailed"} : LiveStreamsReturned(outcome)
  \/ \E sweepNow \in {MESSAGE_TTL, MESSAGE_TTL + 1} : GetDocsReturned(sweepNow)
  \/ GetDocsFailed
  \/ CommitDone
  \/ CommitFailed

SpecCleanup == InitCleanup /\ [][NextCleanup]_vars

\* The presentation of one viewer count, whichever it is.
InitPresent ==
  /\ now = 0
  /\ globalCache = <<>>
  /\ pendingRequests = <<>>
  /\ requests = <<>>
  /\ calls = [c \in Procs |-> IdleCall]
  /\ batch = IdleBatch
  /\ viewer = IdleViewer
  /\ cli = IdleCli
  /\ extract = IdleExtract
  /\ cleanup = IdleCleanup
  /\ shown \in {[IdleShown EXCEPT !.pc = "data", !.concurrentViewers = c] : c \in PresentedCounts}

NextPresent ==
  \/ FormatViewers
  \/ TransformToStreamData
  \/ StreamCard

SpecPresent == InitPresent /\ [][NextPresent]_vars

\* ------------------------------------------------------------------ claims

InFlight(k) == {r \in DOMAIN requests : requests[r].key = k /\ requests[r].stage # "settled"}
Attached(c) == calls[c].pc \in {"await", "done"} /\ calls[c].via \in {"own", "coalesced"}

\* C1 (single-flight): for every key at most one upstream request is in
\* flight; every call that waits while the key's request is in flight waits
\* for that one registered request (the call that found no pending request
\* made it, the others joined it); and every call that waited for a request
\* settles with exactly what that request settled with, the same response
\* object or the same error.
C1_SingleFlight ==
  /\ \A k \in Keys : Cardinality(InFlight(k)) <= 1
  /\ \A c \in Procs :
       (calls[c].pc = "await" /\ requests[calls[c].req].stage # "settled")
         => /\ calls[c].key \in DOMAIN pendingRequests
            /\ pendingRequests[calls[c].key] = calls[c].req
            /\ requests[calls[c].req].key = calls[c].key
  /\ \A c \in Procs :
       (calls[c].pc = "done" /\ Attached(c)) => calls[c].result = requests[calls[c].req].outcome

\* Two overlapping calls of one key have shared a single request: one made
\* it, the other joined it, and both hold its response object.
C1_Witness ==
  \E c, d \in Callers :
    /\ c # d
    /\ calls[c].pc = "done" /\ calls[d].pc = "done"
    /\ calls[c].via = "own" /\ calls[d].via = "coalesced"
    /\ calls[c].req = calls[d].req
    /\ calls[c].result.kind = "value"
    /\ calls[c].result = calls[d].result
    /\ Cardinality({r \in DOMAIN requests : requests[r].key = calls[c].key}) = 1

\* C2 (exception-safe deregistration): a registering call that has returned
\* or rethrown has left no entry for its request behind, and whenever no
\* lookup is in progress pendingRequests is empty.
C2_Deregistration ==
  /\ \A c \in Procs :
       (calls[c].pc = "done" /\ calls[c].via = "own")
         => ~(calls[c].key \in DOMAIN pendingRequests /\ pendingRequests[calls[c].key] = calls[c].req)
  /\ (\A c \in Procs : calls[c].pc # "await") => DOMAIN pendingRequests = {}

\* Both callers registered a request and got an error back, one the invalid
\* identifier error and one another error; nothing is left registered.
C2_Witness ==
  /\ \A c \in Callers : calls[c].pc = "done" /\ calls[c].via = "own" /\ calls[c].result.kind = "error"
  /\ \E c \in Callers : calls[c].result.error = InvalidIdError(calls[c].key)
  /\ \E c \in Callers : calls[c].result.error = NetworkError
  /\ DOMAIN pendingRequests = {}

\* A call of the lookup for key k starts in this step, by caller c.
CallStarts(c, k) ==
  /\ calls[c].pc \in {"idle", "done"}
  /\ calls'[c].pc \in {"await", "done"}
  /\ calls'[c] # calls[c]
  /\ calls'[c].key = k

\* C3 (fresh hit): a call for a key whose cache entry is less than 30000 ms
\* old returns that entry's data at once, and the step makes no upstream
\* request, registers nothing in pendingRequests and leaves globalCache as
\* it is, also when a request for the key is pending.
C3_FreshHit ==
  [][\A c \in Procs, k \in Keys :
       (CallStarts(c, k) /\ k \in DOMAIN globalCache /\ now - globalCache[k].timestamp < 30000)
         => /\ calls'[c].pc = "done"
            /\ calls'[c].result = Fulfilled(globalCache[k].data)
            /\ UNCHANGED <<globalCache, pendingRequests, requests>>]_vars

\* A call was served from the fresh entry while a request for its key is
\* still registered.
C3_Witness ==
  \E c \in Callers :
    /\ calls[c].pc = "done" /\ calls[c].via = "hit"
    /\ calls[c].key \in DOMAIN pendingRequests
    /\ calls[c].result = Fulfilled(globalCache[calls[c].key].data)

\* The request got a 2xx response whose body was parsed (and cached).
Succeeded(r) ==
  requests[r].stage = "settled" /\ ResponseOk(requests[r].status) /\ requests[r].outcome.kind = "value"

\* C4 as claimed (idempotence within the TTL, whatever the upstream does):
\* two requests for one key are never made by calls less than 30000 ms apart.
C4_Original ==
  \A r1, r2 \in DOMAIN requests :
    (r1 < r2 /\ requests[r1].key = requests[r2].key)
      => requests[r2].at - requests[r1].at >= 30000

\* C4 as amended: two calls less than 30000 ms apart cause a second request
\* for the key only when the first request has failed (a non-2xx status, also
\* when answered from the stale entry, a network error or a body that does
\* not parse): a failure caches nothing.
C4_IdempotentAfterSuccess ==
  \A r1, r2 \in DOMAIN requests :
    (r1 < r2 /\ requests[r1].key = requests[r2].key /\ requests[r2].at - requests[r1].at < 30000)
      => (requests[r1].stage = "settled" /\ ~Succeeded(r1))

\* A call made the key's request, which succeeded; the other call, made less
\* than 30000 ms after the request, was served from the cache: one request.
C4_Witness ==
  \E c, d \in Callers :
    /\ calls[c].pc = "done" /\ calls[c].via = "own" /\ Succeeded(calls[c].req)
    /\ calls[d].pc = "done" /\ calls[d].via = "hit" /\ calls[d].key = calls[c].key
    /\ calls[d].result = calls[c].result
    /\ now - requests[calls[c].req].at < 30000
    /\ Cardinality({r \in DOMAIN requests : requests[r].key = calls[c].key}) = 1

\* The HTTP response of request r arrives in this step and settles it.
Answered(r) == requests[r].stage = "fetch" /\ requests'[r].stage = "settled"

\* C5 (stale on an HTTP error status): when the upstream answers a request
\* with a non-2xx status other than 400, the request settles with the data of
\* the cache entry of its key if there is one, whatever its age, and with an
\* error if there is none; the calls waiting for it return or throw just that.
C5_StaleOnHttpError ==
  /\ [][\A r \in DOMAIN requests :
          (Answered(r) /\ requests'[r].status \notin (200..299) \cup {400, -1})
            => IF requests[r].key \in DOMAIN globalCache
               THEN requests'[r].outcome = Fulfilled(globalCache[requests[r].key].data)
               ELSE requests'[r].outcome.kind = "error"]_vars
  /\ [](\A c \in Procs :
          (calls[c].pc = "done" /\ Attached(c)
             /\ requests[calls[c].req].status \notin (200..299) \cup {400, -1})
            => calls[c].result = requests[calls[c].req].outcome)

\* A call whose refresh was answered 503 returned the data of the expired
\* entry, fetched by an earlier request.
C5_Witness ==
  \E c \in Callers :
    /\ calls[c].pc = "done" /\ calls[c].via = "own"
    /\ requests[calls[c].req].status = 503
    /\ calls[c].result.kind = "value"
    /\ calls[c].result.data = globalCache[calls[c].key].data
    /\ calls[c].result.data.obj # calls[c].req
    /\ requests[calls[c].req].at - globalCache[calls[c].key].timestamp >= 30000

\* C6 as claimed (stale on a network error): when the upstream request itself
\* rejects and the cache holds an entry for the key, the request settles with
\* the data of that entry.
C6_StaleOnNetworkError ==
  [][\A r \in DOMAIN requests :
       (Answered(r) /\ requests'[r].status = -1 /\ requests[r].key \in DOMAIN globalCache)
         => requests'[r].outcome = Fulfilled(globalCache[requests[r].key].data)]_vars

\* C7 (an invalid identifier is never masked): a request answered 400 settles
\* with the error Invalid video ID or Invalid channel ID of its kind of key,
\* with or without a cache entry, and the step leaves globalCache as it is;
\* no other outcome carries that error; the calls waiting for the request
\* throw that error.
C7_InvalidIdNotMasked ==
  /\ [][\A r \in DOMAIN requests :
          (Answered(r) /\ requests'[r].status = 400)
            => /\ requests'[r].outcome =
                    Rejected(IF requests[r].key[1] = "channel:" THEN "Invalid channel ID"
                                                                 ELSE "Invalid video ID")
               /\ globalCache' = globalCache]_vars
  /\ [](\A r \in DOMAIN requests :
          (requests[r].stage = "settled"
             /\ requests[r].outcome.error \in {"Invalid channel ID", "Invalid video ID"})
            => requests[r].status = 400)
  /\ [](\A c \in Procs :
          (calls[c].pc = "done" /\ Attached(c) /\ requests[calls[c].req].status = 400)
            => /\ calls[c].result.kind = "error"
               /\ calls[c].result.error \in {"Invalid channel ID", "Invalid video ID"})

\* A call whose refresh of an expired entry was answered 400 threw the
\* invalid identifier error; the expired entry is still there.
C7_Witness ==
  \E c \in Callers :
    /\ calls[c].pc = "done" /\ calls[c].via = "own"
    /\ requests[calls[c].req].status = 400
    /\ calls[c].result = Rejected(InvalidIdError(calls[c].key))
    /\ calls[c].key \in DOMAIN globalCache
    /\ requests[calls[c].req].at - globalCache[calls[c].key].timestamp >= 30000

\* The keys whose entry this step writes.
Written == {k \in DOMAIN globalCache' : k \notin DOMAIN globalCache \/ globalCache'[k] # globalCache[k]}

\* C8 (globalCache is written on successful upstream completion only): no
\* step removes an entry; a step that writes is either the completion of a
\* lookup's request with a parsed 2xx body, which writes the entry of that
\* request's key alone, as {that response, now}, or the conversion of a
\* successful batch response, which writes entries of its uncached channels
\* alone, each as {a response built from the batch response, now}; a step in
\* which a request settles with an error or with the stale entry, and a step
\* in which a call returns or rethrows, writes nothing.
C8_CacheWrittenOnSuccessOnly ==
  [][/\ DOMAIN globalCache \subseteq DOMAIN globalCache'
     /\ Written # {} =>
          \/ \E r \in DOMAIN requests :
               /\ requests[r].stage = "json" /\ requests'[r].stage = "settled"
               /\ requests'[r].status \in 200..299
               /\ requests'[r].outcome.kind = "value"
               /\ Written = {requests[r].key}
               /\ globalCache'[requests[r].key] = [data |-> requests'[r].outcome.data, timestamp |-> now]
          \/ /\ batch.pc = "postJson" /\ batch'.pc = "done"
             /\ \A k \in Written :
                  /\ k \in {ChannelKey(id) : id \in Range(batch.uncached)}
                  /\ globalCache'[k].timestamp = now
                  /\ globalCache'[k].data.obj < 0
     /\ \A r \in DOMAIN requests :
          (requests[r].stage # "settled" /\ requests'[r].stage = "settled"
             /\ ~(requests'[r].status \in 200..299 /\ requests'[r].outcome.kind = "value"))
            => globalCache' = globalCache
     /\ (\E c \in Procs : calls[c].pc = "await" /\ calls'[c].pc = "done")
          => globalCache' = globalCache]_vars

\* In the fallback loop a lookup was answered 503 and returned the expired
\* entry, which an earlier item's request had written; the entry is as it was.
C8_Witness ==
  /\ batch.fn = "getChannelsMetadataFallback"
  /\ calls[BatchCaller].pc = "done" /\ calls[BatchCaller].via = "own"
  /\ requests[calls[BatchCaller].req].status = 503
  /\ calls[BatchCaller].result.kind = "value"
  /\ calls[BatchCaller].result.data.obj # calls[BatchCaller].req
  /\ globalCache[calls[BatchCaller].key].data = calls[BatchCaller].result.data
  /\ requests[calls[BatchCaller].req].at - globalCache[calls[BatchCaller].key].timestamp >= 30000

Sequential == batch.fn \in {"getVideosMetadata", "getChannelsMetadataFallback"}

\* The responses among the outcomes, in order.
OkData(outs) ==
  LET ok == SelectSeq(outs, LAMBDA o : o.kind = "value")
  IN [j \in 1..Len(ok) |-> ok[j].data]

\* C9 (batch isolation): in the sequential orchestrator the lookups are made
\* for the ids in input order, one per id; the results are at every moment
\* exactly the responses of the lookups that succeeded so far, in that order;
\* and when the call returns every id has had its lookup, whatever failed.
C9_BatchIsolation ==
  Sequential =>
    /\ Len(batch.outcomes) <= Len(batch.ids)
    /\ batch.pc = "lookup" =>
         /\ batch.i = Len(batch.outcomes) + 1
         /\ calls[BatchCaller].pc \in {"await", "done"}
         /\ calls[BatchCaller].key = KeyOf(batch.fn, batch.ids[batch.i])
    /\ batch.results = OkData(batch.outcomes)
    /\ batch.pc = "done" => Len(batch.outcomes) = Len(batch.ids)

\* A call with three ids has returned: the second id was rejected as
\* invalid, the first and the third are in the results.
C9_Witness ==
  /\ Sequential /\ batch.pc = "done"
  /\ Len(batch.ids) = 3
  /\ batch.outcomes[2] = Rejected(InvalidIdError(KeyOf(batch.fn, batch.ids[2])))
  /\ batch.outcomes[1].kind = "value" /\ batch.outcomes[3].kind = "value"
  /\ batch.results = <<batch.outcomes[1].data, batch.outcomes[3].data>>

\* C10 as claimed (batch pacing): after every item but the last whose lookup
\* returned a response, the 500 ms delay is inserted exactly when the
\* response did not come from a fresh cache hit.
C10_DelayIffColdFetch ==
  Sequential =>
    \A j \in 1..Len(batch.delays) :
      (j < Len(batch.ids) /\ batch.outcomes[j].kind = "value")
        => ((batch.delays[j] = 500) <=> (batch.vias[j] # "hit"))

\* C11 (batch sequencing): within one call of the sequential orchestrator at
\* most one upstream request is in flight at any time, and the lookup of the
\* next item starts only in a step before which the lookup of the item before
\* it has returned or thrown (its outcome is recorded) and every request made
\* so far has settled.
C11_BatchSequencing ==
  /\ [](Sequential => Cardinality({r \in DOMAIN requests : requests[r].stage # "settled"}) <= 1)
  /\ [][(batch'.fn = batch.fn /\ Sequential /\ batch'.i # batch.i)
          => /\ batch'.i = batch.i + 1
             /\ batch.pc \in {"lookup", "delay"}
             /\ batch.pc = "lookup" => calls[BatchCaller].pc = "done"
             /\ Len(batch'.outcomes) = batch.i
             /\ batch'.outcomes[batch.i].kind \in {"value", "error"}
             /\ \A r \in DOMAIN requests : requests[r].stage = "settled"]_vars

\* A fallback call over two channels has returned; each lookup made its own
\* request, the second one after the first had settled and been answered.
C11_Witness ==
  /\ batch.fn = "getChannelsMetadataFallback" /\ batch.pc = "done"
  /\ Len(batch.ids) = 2 /\ batch.ids[1] # batch.ids[2]
  /\ batch.vias = <<"own", "own">>
  /\ Len(requests) = 2
  /\ requests[1].key = ChannelKey(batch.ids[1]) /\ requests[2].key = ChannelKey(batch.ids[2])
  /\ \A r \in DOMAIN requests : requests[r].stage = "settled"

\* The call of getChannelsMetadata has returned (by itself or through its
\* fallback).
BatchReturned == batch.pc = "done" /\ batch.fn \in {"getChannelsMetadata", "getChannelsMetadataFallback"}

\* C12 as claimed (live-only batch result): every element of the list that
\* getChannelsMetadata returns is a response with success = true, whatever
\* cache the earlier calls have left.
C12_LiveOnly ==
  BatchReturned => \A j \in 1..Len(batch.results) : batch.results[j].success

\* The upstream requests under way that cover the channel: the requests of
\* the single lookup, and the POST of the batch call when the channel is among
\* those it asks for.
Covering(id) ==
  Cardinality(InFlight(ChannelKey(id)))
    + (IF batch.pc \in {"post", "postJson"} /\ id \in Range(batch.uncached) THEN 1 ELSE 0)

\* C13 as claimed (single-flight across entry points): whichever entry
\* points the overlapping lookups of a channel came through, at most one
\* upstream request covering the channel is under way.
C13_SingleFlightAcrossEntryPoints ==
  \A id \in ChannelIds : Covering(id) <= 1

\* The answer to the j-th request of the call, and the text fetchText makes
\* of it (empty for a status from 300 on).
Resp(j) == viewer.fetches[j].response
TextOf(resp) == IF resp.status \in 200..299 THEN resp.body ELSE EmptyHtml
Redirect3xx(resp) == resp.status \in 300..399

\* The video id in the Location header of a 3xx answer, or null.
RedirectId(resp) ==
  IF Redirect3xx(resp) /\ resp.location # Null
  THEN IF resp.location[1].query # Null THEN resp.location[1].query ELSE resp.location[1].watch
  ELSE Null

NotLiveResult == [kind |-> "value", videoId |-> Null, liveViewers |-> Null, error |-> ""]
ByResolve == SelectSeq(viewer.fetches, LAMBDA f : f.by = "resolve")
ByViewers == SelectSeq(viewer.fetches, LAMBDA f : f.by = "viewers")

\* C14 (redirect path): when the manual-redirect request is answered 3xx with
\* a Location that holds a video id, resolveLiveVideoIdStrict returns that id
\* having made that one request: no second request of the channel, no
\* candidate and no verification fetch (the one later request is the watch
\* page fetched for the viewers by getConcurrentViewersFromChannel).
C14_RedirectPath ==
  (Len(viewer.fetches) >= 1 /\ RedirectId(Resp(1)) # Null)
    => /\ viewer.videoId = RedirectId(Resp(1))
       /\ Len(ByResolve) = 1
       /\ viewer.fetches[1].url = <<"live", viewer.channelId>>
       /\ viewer.fetches[1].redirect = "manual"
       /\ viewer.candidate = Null
       /\ \A j \in 2..Len(viewer.fetches) : viewer.fetches[j].by = "viewers"

\* The /live request was answered 302 with a Location holding ?v=<id> (not
\* in the watch?v= form); the call went on with that id and has returned.
C14_Witness ==
  /\ viewer.pc = "done" /\ viewer.result.kind = "value"
  /\ Resp(1).status = 302 /\ Resp(1).location # Null
  /\ Resp(1).location[1].query # Null /\ Resp(1).location[1].watch = Null
  /\ viewer.result.videoId = Resp(1).location[1].query
  /\ Len(viewer.fetches) = 2

\* The HTML of the /live page a call with no usable redirect has got: the
\* text of the first answer, or of the second one when that text was empty.
NoUsableRedirect == Len(viewer.fetches) >= 1 /\ Resp(1).status \in 200..399 /\ RedirectId(Resp(1)) = Null
SecondAsked == Len(viewer.fetches) >= 2 /\ viewer.fetches[2].url = <<"live", viewer.channelId>>
HtmlObtained ==
  /\ NoUsableRedirect
  /\ \/ ~TextOf(Resp(1)).empty
     \/ SecondAsked /\ Resp(2).status \in 200..399
ChannelHtml == IF ~TextOf(Resp(1)).empty THEN TextOf(Resp(1)) ELSE TextOf(Resp(2))

\* C15 (no redirect, no videoId literal): when the /live request gives no
\* usable redirect and the HTML obtained holds no videoId literal, the call
\* returns {videoId: null, liveViewers: null} and no watch page was fetched.
C15_NotLiveWithoutCandidate ==
  (viewer.pc = "done" /\ HtmlObtained /\ ChannelHtml.videoId = Null)
    => /\ viewer.result = NotLiveResult
       /\ \A j \in 1..Len(viewer.fetches) : viewer.fetches[j].url[1] # "watch"

\* A 302 without a video id, then a page without a videoId literal: not live
\* after two requests of the channel.
C15_Witness ==
  /\ viewer.pc = "done" /\ viewer.result = NotLiveResult
  /\ Resp(1).status = 302 /\ Resp(1).location # Null /\ RedirectId(Resp(1)) = Null
  /\ Len(viewer.fetches) = 2 /\ Resp(2).status = 200
  /\ ~Resp(2).body.empty /\ Resp(2).body.videoId = Null

\* The verification fetch of a call on the scrape path is its last request by
\* the resolution, for a watch page.
Verification == ByResolve[Len(ByResolve)]
Verifying == Len(ByResolve) >= 1 /\ Verification.url[1] = "watch" /\ Verification.response.status # 0
LiveIndicator(html) == html.isLiveNow = TRUE \/ html.isLiveFlag = TRUE \/ html.watchingNow = TRUE

\* C16 (false-positive guard): on the scrape path the candidate found in the
\* channel page is returned as the live video only when its own watch page
\* was fetched and carries a live indicator; when that page carries none the
\* call returns not live, although the channel page held a videoId literal.
C16_FalsePositiveGuard ==
  /\ (viewer.candidate # Null /\ viewer.videoId # Null)
       => /\ Verifying
          /\ Verification.url = <<"watch", viewer.candidate[1]>>
          /\ Verification.response.status \in 200..299
          /\ LiveIndicator(Verification.response.body)
          /\ viewer.videoId = viewer.candidate
  /\ (Verifying /\ Verification.response.status \in 200..399
        /\ ~LiveIndicator(TextOf(Verification.response)))
       => viewer.pc = "done" /\ viewer.result = NotLiveResult

\* The channel page held a videoId literal, the candidate's watch page came
\* with no live indicator: not live.
C16_Witness ==
  /\ viewer.pc = "done" /\ viewer.candidate # Null
  /\ ChannelHtml.videoId = viewer.candidate
  /\ Verifying /\ Verification.response.status = 200
  /\ ~Verification.response.body.empty
  /\ ~LiveIndicator(Verification.response.body)
  /\ viewer.result = NotLiveResult

\* C17 as claimed (an unverifiable candidate is not live): when the fetch of
\* the candidate's watch page fails, by a network error or an HTTP error
\* status, the call returns the not-live result and throws nothing.
C17_VerificationFailureIsNotLive ==
  (Verifying /\ Verification.response.status \notin 200..399)
    => viewer.pc = "done" /\ viewer.result = NotLiveResult

\* C18 (step 1 fails hard): when the manual-redirect request fails, by a
\* network error or a status that is neither 2xx nor 3xx, the call throws:
\* it makes no other request and never returns a result.
C18_Step1FailurePropagates ==
  (Len(viewer.fetches) >= 1 /\ Resp(1).status # 0 /\ Resp(1).status \notin 200..399)
    => /\ viewer.pc = "done"
       /\ viewer.result.kind = "error"
       /\ Len(viewer.fetches) = 1

\* The /live request was rejected by the network: the call has thrown.
C18_Witness ==
  /\ viewer.pc = "done" /\ Len(viewer.fetches) = 1
  /\ Resp(1).status = -1
  /\ viewer.result.kind = "error" /\ viewer.result.error = "fetch failed"

\* What each of the three strategies yields on a watch page.
Yield1(html) == IF html.initialData.parsed THEN deepPickConcurrentViewers(html.initialData) ELSE Null
Yield2(html) == IF html.playerResp.parsed THEN deepPickConcurrentViewers(html.playerResp) ELSE Null
Yield3(html) == html.phrase

\* C19 (viewer-count precedence): once the live video id is resolved the
\* call fetches the watch page of that id once, and liveViewers is what the
\* first of the three strategies that yields a number yields, in the order
\* ytInitialData, ytInitialPlayerResponse, raw HTML; it is null exactly when
\* none yields a number.
C19_ViewerPrecedence ==
  (viewer.pc = "done" /\ viewer.result.kind = "value" /\ viewer.result.videoId # Null)
    => /\ Len(ByViewers) = 1
       /\ ByViewers[1].url = <<"watch", viewer.result.videoId[1]>>
       /\ viewer.fetches[Len(viewer.fetches)] = ByViewers[1]
       /\ LET html == TextOf(ByViewers[1].response)
          IN /\ viewer.result.liveViewers =
                  IF Yield1(html) # Null THEN Yield1(html)
                  ELSE IF Yield2(html) # Null THEN Yield2(html)
                  ELSE Yield3(html)
             /\ (viewer.result.liveViewers = Null)
                  <=> (Yield1(html) = Null /\ Yield2(html) = Null /\ Yield3(html) = Null)

\* ytInitialData is there without a count, the player response yields 7, the
\* raw HTML reads 8: the count is 7.
C19_Witness ==
  /\ viewer.pc = "done" /\ viewer.result.kind = "value" /\ viewer.result.videoId # Null
  /\ LET html == TextOf(ByViewers[1].response)
     IN /\ html.initialData.parsed /\ Yield1(html) = Null
        /\ Yield2(html) = <<7>> /\ Yield3(html) = <<8>>
  /\ viewer.result.liveViewers = <<7>>

\* C20 as claimed (null is unknown, not zero): what the presentation makes
\* of a null viewer count differs from what it makes of the count 0, in the
\* viewers field of the StreamData, in the text of formatViewers and in the
\* text of the stream card.
C20_NullIsNotZero ==
  shown.concurrentViewers = Null
    => /\ shown.pc = "stream" => shown.viewers # transformToStreamData([concurrentViewers |-> Just(0)]).viewers
       /\ shown.pc = "text" => shown.text # formatViewers(Just(0))
       /\ shown.pc = "card" =>
            shown.text # formatViewers(Just(transformToStreamData([concurrentViewers |-> Just(0)]).viewers))

\* ---------------------------------------------------------------- C21
\* The argument is no channel id: absent, or not beginning with UC.
BadArgument == cli.argv = Null \/ Len(cli.argv[1]) < 2 \/ SubSeq(cli.argv[1], 1, 2) # <<"U", "C">>

\* C21: the script exits with 1, before any HTTP request, exactly when the
\* argument is missing or does not start with UC; with 2 exactly when the
\* resolution or the extraction threw; with 3 exactly when the channel is
\* not live; with 0 exactly when a live videoId was resolved and a result
\* returned, liveViewers null included; and with 0 and with 3 the object
\* with channelId, videoId and liveViewers is on standard output.
C21_ExitProtocol ==
  cli.pc = "exited" =>
    /\ cli.exitCode \in {0, 1, 2, 3}
    /\ (cli.exitCode = 1) = BadArgument
    /\ cli.exitCode = 1 => viewer.fetches = <<>>
    /\ (cli.exitCode = 2) = (viewer.result.kind = "error")
    /\ (cli.exitCode = 3) = (viewer.result.kind = "value" /\ viewer.result.videoId = Null)
    /\ (cli.exitCode = 0) = (viewer.result.kind = "value" /\ viewer.result.videoId # Null)
    /\ cli.exitCode \in {0, 3} =>
         /\ cli.stdout # Null
         /\ cli.stdout[1].channelId = cli.argv[1]
         /\ cli.stdout[1].videoId = viewer.videoId
         /\ cli.stdout[1].liveViewers = viewer.result.liveViewers

\* The script has exited with 0 for a live video without a viewer count.
C21_Witness ==
  /\ cli.pc = "exited"
  /\ cli.exitCode = 0
  /\ cli.stdout # Null
  /\ cli.stdout[1].videoId # Null
  /\ cli.stdout[1].liveViewers = Null

\* ---------------------------------------------------------------- C26
\* The n-th request was the last of the channel page; html is what it gave.
\* The scan for the videoId literal shows in what the call did next: without
\* a literal it returned not live with no further request, with one it kept
\* the id as its candidate and asked for that video's watch page.
Scanned(n, html) ==
  IF html.empty \/ html.videoId = Null
  THEN /\ viewer.pc = "done"
       /\ viewer.result = NotLiveResult
       /\ Len(viewer.fetches) = n
  ELSE /\ viewer.candidate = html.videoId
       /\ Len(viewer.fetches) > n
       /\ viewer.fetches[n + 1].url = <<"watch", html.videoId[1]>>
       /\ viewer.fetches[n + 1].by = "resolve"

\* The second request is the same /live URL, redirects followed.
SecondFollows ==
  /\ SecondAsked
  /\ viewer.fetches[2].by = "resolve"
  /\ viewer.fetches[2].redirect = "follow"

BatchEndpointFails ==
  \/ BatchNetworkError
  \/ \E s \in Statuses : s \notin 200..299 /\ BatchResponse(s)
  \/ BatchJsonError
  \/ \E res \in [Range(batch.uncached) -> ChannelResults] : BatchJson(FALSE, res)

\* The sequential fallback begins: over the whole input list, from its first
\* item, with an empty result list and the cache as it was.
FallbackBegins ==
  /\ batch'.fn = "getChannelsMetadataFallback"
  /\ batch'.ids = batch.ids
  /\ batch'.i = 1
  /\ batch'.results = <<>>
  /\ batch'.pc = "lookup"
  /\ calls'[BatchCaller].key = <<"channel:", batch.ids[1]>>
  /\ globalCache' = globalCache

\* A step that is a call of getChannelsMetadata.
BatchCalled == batch.pc = "idle" /\ batch'.fn = "getChannelsMetadata"
AllFresh(ids) ==
  \A j \in 1..Len(ids) :
    /\ <<"channel:", ids[j]>> \in DOMAIN globalCache
    /\ now - globalCache[<<"channel:", ids[j]>>].timestamp < CACHE_DURATION

\* The fallback has returned: every item of the input was looked up, and the
\* list returned holds the responses of the lookups that succeeded, in order.
FallbackReturned == batch.pc = "done" /\ batch.fn = "getChannelsMetadataFallback"
Successes(outcomes) ==
  LET ok == SelectSeq(outcomes, LAMBDA o : o.kind = "value")
  IN [j \in 1..Len(ok) |-> ok[j].data]

\* C25: when the batch endpoint fails in any way, nothing is written to the
\* cache in that step and the call goes on with the sequential lookups over
\* its full input list, returning, after every item was tried, the list of
\* the lookups that succeeded (no failure ends the call early); with an
\* empty input, or with a fresh cache entry for every id, the call returns
\* at once and no upstream request is made.
C25_BatchNeverRejects ==
  /\ [][BatchEndpointFails => FallbackBegins]_vars
  /\ [][BatchCalled /\ (batch'.ids = <<>> \/ AllFresh(batch'.ids))
          => /\ batch'.pc = "done"
             /\ Len(batch'.results) = Len(batch'.ids)
             /\ UNCHANGED <<requests, pendingRequests, calls>>]_vars
  /\ [](batch.pc \in {"post", "postJson"} => batch.uncached # <<>>)
  /\ [](FallbackReturned => /\ Len(batch.outcomes) = Len(batch.ids)
                            /\ batch.results = Successes(batch.outcomes))

\* The batch endpoint failed for two channels, the fallback looked both up
\* and returned the one success: the other lookup threw.
C25_Witness ==
  /\ FallbackReturned
  /\ Len(batch.ids) = 2
  /\ Len(batch.results) = 1
  /\ Len(batch.outcomes) = 2

\* ---------------------------------------------------------------- C28
\* Call c returns in this step from the cache check, without any request.
ReturnsHit(c) == calls'[c] # calls[c] /\ calls'[c].pc = "done" /\ calls'[c].via = "hit"

\* Call c has returned an entry of the cache that its request did not fetch.
ReturnedEntry(c) ==
  /\ calls[c].pc = "done" /\ Attached(c)
  /\ calls[c].result.kind = "value"
  /\ calls[c].result.data.obj # calls[c].req

\* Request r completes with success in this step.
Succeeds(r) ==
  /\ requests[r].stage = "json" /\ requests'[r].stage = "settled"
  /\ requests'[r].status \in 200..299
  /\ requests'[r].outcome.kind = "value"

\* C28: a lookup returns from the cache check only an entry younger than
\* 30 s; an entry returned in any other way (so every entry of 30 s or more)
\* is returned by a call whose request, its own or the pending one it
\* joined, was issued for that key and answered with a status that is
\* neither 2xx nor 400; handing out the old entry leaves globalCache as it
\* is, and the timestamp of an entry changes only when a request of its key
\* completes with success.
C28_NoStaleWithoutAttempt ==
  /\ [][\A c \in Procs :
          ReturnsHit(c)
            => /\ calls'[c].key \in DOMAIN globalCache
               /\ now - globalCache[calls'[c].key].timestamp < 30000
               /\ calls'[c].result = Fulfilled(globalCache[calls'[c].key].data)
               /\ requests' = requests]_vars
  /\ [](\A c \in Procs :
          ReturnedEntry(c)
            => /\ requests[calls[c].req].key = calls[c].key
               /\ requests[calls[c].req].stage = "settled"
               /\ requests[calls[c].req].status \notin (200..299) \cup {400, -1, 0})
  /\ [][\A r \in DOMAIN requests :
          (Answered(r) /\ requests'[r].status \notin 200..299) => globalCache' = globalCache]_vars
  /\ [][\A k \in DOMAIN globalCache' :
          (k \notin DOMAIN globalCache \/ globalCache'[k].timestamp # globalCache[k].timestamp)
            => \E r \in DOMAIN requests : requests[r].key = k /\ Succeeds(r)]_vars

\* A call that joined the pending refresh of an expired entry got that
\* entry when the refresh was answered 503; the entry is as old as before.
C28_Witness ==
  \E c \in Callers :
    /\ ReturnedEntry(c)
    /\ calls[c].via = "coalesced"
    /\ requests[calls[c].req].status = 503
    /\ calls[c].result.data = globalCache[calls[c].key].data
    /\ now - globalCache[calls[c].key].timestamp >= 30000
    /\ requests[calls[c].req].at - globalCache[calls[c].key].timestamp >= 30000

\* ---------------------------------------------------------------- C29
\* C29 (progress): when every upstream request settles, every call of the
\* cached lookups that waits, for its own request or for the pending one it
\* joined, returns or throws; every key registered in pendingRequests is
\* deregistered and pendingRequests is empty in the end; and a call of
\* getConcurrentViewersFromChannel ends, with a result or an error, having
\* made at most 4 HTTP requests.
C29_Progress ==
  /\ \A c \in Callers : (calls[c].pc = "await") ~> (calls[c].pc = "done")
  /\ \A k \in Keys : (k \in DOMAIN pendingRequests) ~> (k \notin DOMAIN pendingRequests)
  /\ <>[](pendingRequests = <<>>)
  /\ (viewer.pc # "idle") ~> (viewer.pc = "done" /\ viewer.result.kind \in {"value", "error"})
  /\ [](Len(viewer.fetches) <= 4)

\* A caller that joined a pending request has returned, and nothing is
\* pending any more.
C29_Witness ==
  \E c \in Callers :
    /\ calls[c].pc = "done" /\ calls[c].via = "coalesced"
    /\ requests[calls[c].req].stage = "settled"
    /\ pendingRequests = <<>>

\* ---------------------------------------------------------------- C22
\* A thousands separator as the claim lists them.
Thousands(ch) == ch \in {".", ",", " ", NBSP}
Numeric(w) == \A j \in 1..Len(w) : \E d \in 1..10 : w[j] = Digits[d]

\* w is a locale-grouped numeral: one to three digits, then groups of a
\* separator and three digits.
LocaleGrouped(w) ==
  \E lead \in 1..3 :
    /\ lead <= Len(w)
    /\ (Len(w) - lead) % 4 = 0
    /\ Numeric(SubSeq(w, 1, lead))
    /\ \A g \in 0..((Len(w) - lead) \div 4 - 1) :
         /\ Thousands(w[lead + 4 * g + 1])
         /\ Numeric(SubSeq(w, lead + 4 * g + 2, lead + 4 * g + 4))

\* The first numeral of s begins at its first digit.
HasDigit(s) == \E j \in 1..Len(s) : Numeric(<<s[j]>>)
FirstDigit(s) == CHOOSE j \in 1..Len(s) : Numeric(<<s[j]>>) /\ \A h \in 1..(j - 1) : ~Numeric(<<s[h]>>)

\* The first run of digits of s, whole.
FirstRun(s) ==
  LET a == FirstDigit(s)
      b == CHOOSE e \in a..Len(s) :
             /\ Numeric(SubSeq(s, a, e))
             /\ e < Len(s) => ~Numeric(<<s[e + 1]>>)
  IN SubSeq(s, a, b)

\* The first locale-grouped numeral of s: the longest one that begins at the
\* first digit.
FirstGrouped(s) ==
  LET a == FirstDigit(s)
      b == CHOOSE e \in a..Len(s) :
             /\ LocaleGrouped(SubSeq(s, a, e))
             /\ \A f \in (e + 1)..Len(s) : ~LocaleGrouped(SubSeq(s, a, f))
  IN SubSeq(s, a, b)

\* The integer a numeral reads as once its separators are removed.
RECURSIVE IntegerOf(_)
IntegerOf(w) ==
  IF w = <<>> THEN 0
  ELSE IF Numeric(<<w[1]>>)
  THEN (CHOOSE d \in 0..9 : Digits[d + 1] = w[1]) * 10 ^ Cardinality({j \in 2..Len(w) : Numeric(<<w[j]>>)})
         + IntegerOf(Tail(w))
  ELSE IntegerOf(Tail(w))

NumberCallDone == extract.pc = "done" /\ extract.fn = "extractNumberFromText"

\* C22: for a text whose first numeral is written in groups (its first run
\* of digits has at most three digits), extractNumberFromText returns the
\* integer read from the first locale-grouped numeral with its separators
\* ('.', ',', space, non-breaking space) removed: 12453 for "12,453",
\* "12.453", "12 453" and the same with a non-breaking space; and it returns
\* null for a text without a digit.
C22_GroupedNumeral ==
  NumberCallDone =>
    /\ ~HasDigit(extract.input) => extract.output = Null
    /\ (HasDigit(extract.input) /\ Len(FirstRun(extract.input)) <= 3)
         => extract.output = <<IntegerOf(FirstGrouped(extract.input))>>
    /\ (Len(extract.input) = 6 /\ SubSeq(extract.input, 1, 2) = <<"1", "2">>
          /\ Thousands(extract.input[3]) /\ SubSeq(extract.input, 4, 6) = <<"4", "5", "3">>)
         => extract.output = <<12453>>

\* The call with "12 453", the separator a non-breaking space, gave 12453.
C22_Witness ==
  /\ NumberCallDone
  /\ extract.input = <<"1", "2", "nbsp", "4", "5", "3">>
  /\ extract.output = <<12453>>

\* ---------------------------------------------------------------- C30
\* The first numeral of s is its first run of digits: no separator and
\* three digits follow a run of one to three digits.
Unseparated(s) == Len(FirstGrouped(s)) <= Len(FirstRun(s))

\* C30 as claimed: for a text whose first numeral is a run of digits without
\* separators, of any length, extractNumberFromText returns the integer
\* value of the whole run.
C30_UnseparatedRun ==
  (NumberCallDone /\ HasDigit(extract.input) /\ Unseparated(extract.input))
    => extract.output = <<IntegerOf(FirstRun(extract.input))>>

\* ---------------------------------------------------------------- C23
\* The number read in a text, as a list of none or one candidate.
Candidate(text) == IF extractNumberFromText(text) = Null THEN <<>> ELSE extractNumberFromText(text)
TextsOf(runs) == [j \in 1..Len(runs.items) |-> Get(runs.items[j], "text")]

\* The candidates of node o by itself, in the order of the claim:
\* viewCount.runs, viewCount.simpleText, a runs array whose text has a phrase.
OfViewCountRuns(o) ==
  LET runs == Get(Get(o, "viewCount"), "runs")
  IN IF runs.type = "array" THEN Candidate(Join(TextsOf(runs))) ELSE <<>>
OfSimpleText(o) ==
  LET t == Get(Get(o, "viewCount"), "simpleText")
  IN IF t.type = "string" /\ t.chars # <<>> THEN Candidate(t.chars) ELSE <<>>
OfRuns(o) ==
  LET runs == Get(o, "runs")
      joined == Join(SelectSeq(TextsOf(runs), LAMBDA t : t.type = "string" /\ t.chars # <<>>))
  IN IF runs.type = "array" /\ HasPhrase(joined) THEN Candidate(joined) ELSE <<>>

\* The candidates of the tree below o in depth-first encounter order: those
\* of the node, then key by key a string with a phrase or the candidates of
\* the subtree.
RECURSIVE Candidates(_), OfKeys(_, _)
OfKeys(o, j) ==
  IF j > Len(Values(o)) THEN <<>>
  ELSE LET v == Values(o)[j]
       IN (IF v.type = "string" THEN (IF HasPhrase(v.chars) THEN Candidate(v.chars) ELSE <<>>)
           ELSE Candidates(v)) \o OfKeys(o, j + 1)
Candidates(o) ==
  IF o.type \notin {"object", "array"} THEN <<>>
  ELSE OfViewCountRuns(o) \o OfSimpleText(o) \o OfRuns(o) \o OfKeys(o, 1)

\* Some runs array of the tree holds a null: reading its .text throws.
RECURSIVE Malformed(_)
Malformed(o) ==
  /\ o.type \in {"object", "array"}
  /\ \/ \E runs \in {Get(o, "runs"), Get(Get(o, "viewCount"), "runs")} :
          runs.type = "array" /\ \E j \in 1..Len(runs.items) : runs.items[j].type = "null"
     \/ \E j \in 1..Len(Values(o)) : Malformed(Values(o)[j])

TreeCallDone == extract.pc = "done" /\ extract.fn = "deepPickConcurrentViewers"
SimpleTextExample ==
  Obj(<<<<"viewCount",
          Obj(<<<<"simpleText",
                  Str(<<"1", ",", "2", "3", "4", " ", "w", "a", "t", "c", "h", "i", "n", "g", " ", "n", "o", "w">>)>>>>)>>>>)

ParsedPlayer(page) ==
  LET s == page.scripts["ytInitialPlayerResponse"]
  IN IF s.assigned.valid THEN <<s.assigned.value>>
     ELSE IF s.quoted.valid THEN <<s.quoted.value>>
     ELSE <<>>

\* Indicator 1: microformat.playerMicroformatRenderer.liveBroadcastDetails
\* .isLiveNow of the parsed player response is literally true.
Field(o, k) ==
  IF o.type = "object" THEN {o.pairs[j][2] : j \in {h \in 1..Len(o.pairs) : o.pairs[h][1] = k}} ELSE {}
Indicator1(page) ==
  /\ ParsedPlayer(page) # <<>>
  /\ \E m \in Field(ParsedPlayer(page)[1], "microformat") :
       \E r \in Field(m, "playerMicroformatRenderer") :
         \E d \in Field(r, "liveBroadcastDetails") :
           \E v \in Field(d, "isLiveNow") : v.type = "boolean" /\ v.value = TRUE

\* Indicator 2: the text holds "isLiveNow", white space or none, a colon,
\* white space or none, true.
WhiteSpace == {" ", "\n", "\t", "nbsp"}
Indicator2(page) ==
  LET t == page.text IN
  \E a \in 1..Len(t) :
    /\ a + 10 <= Len(t)
    /\ SubSeq(t, a, a + 10) = <<"\"", "i", "s", "L", "i", "v", "e", "N", "o", "w", "\"">>
    /\ \E colon \in (a + 11)..Len(t) :
         /\ t[colon] = ":"
         /\ \A j \in (a + 11)..(colon - 1) : t[j] \in WhiteSpace
         /\ \E word \in (colon + 1)..Len(t) :
              /\ word + 3 <= Len(t)
              /\ SubSeq(t, word, word + 3) = <<"t", "r", "u", "e">>
              /\ \A j \in (colon + 1)..(word - 1) : t[j] \in WhiteSpace

\* Indicator 3: the text holds one of the four phrases, in any case.
Indicator3(page) ==
  \E p \in Phrases, a \in 1..Len(page.text) :
    /\ a + Len(p) - 1 <= Len(page.text)
    /\ \A j \in 1..Len(p) : page.text[a + j - 1] = p[j] \/ ToLower(page.text[a + j - 1]) = p[j]

LiveCallDone == extract.pc = "done" /\ extract.fn = "isLiveNowFromHtml"

\* C24: isLiveNowFromHtml returns true exactly when one of the three
\* indicators holds, and it returns (it does not throw) also when the text
\* matched as the player response does not parse.
C24_LiveIffIndicator ==
  LiveCallDone =>
    /\ extract.output.kind = "return"
    /\ extract.output.value =
         (Indicator1(extract.input) \/ Indicator2(extract.input) \/ Indicator3(extract.input))

\* The player response of the page did not parse and the text holds only a
\* phrase, in capitals: the call returned true.
C24_Witness ==
  /\ LiveCallDone
  /\ extract.input.scripts["ytInitialPlayerResponse"].assigned = Unparsable
  /\ ~extract.input.scripts["ytInitialPlayerResponse"].quoted.valid
  /\ ~Indicator2(extract.input)
  /\ Indicator3(extract.input)
  /\ extract.output = [kind |-> "return", value |-> TRUE]

\* ---------------------------------------------------------------- C27
\* Message m is younger than the TTL at the time of the sweep.
Younger(m) == m.timestamp # Null /\ cleanup.sweepNow - m.timestamp[1] < 7200000

\* C27 as claimed: whatever the outcome of the live-stream lookup, no sweep
\* deletes a message younger than the TTL whose stream is live upstream.
C27_LiveYoungKept ==
  \A m \in cleanup.deleted : ~(Younger(m) /\ m.streamId \in cleanup.live)

====
